---- MODULE Spec2Model ----
(***************************************************************************)
(* TAKT agentic system: the agents (src/agents), their cross-validation    *)
(* protocol (src/agents/base_agent.py) and the orchestrator                *)
(* (src/orchestrator.py).  Python objects live in a heap of dicts and      *)
(* lists, so that copying, aliasing and in-place appends are visible.      *)
(***************************************************************************)
EXTENDS Integers, Sequences, FiniteSets, TLC

(***************************************************************************)
(* Bounds of the model.                                                    *)
(***************************************************************************)
\* significant bits of a floating-point number
Precision == 5
\* agent instances in the pool a cross_validate call draws from
PoolSize == 2
\* longest peer list handed to a cross_validate call over a pool
MaxPeers == 2
\* longest peer list handed to a cross_validate call among the configured agents
MaxDirectPeers == 1
\* most agents a registry of the orchestrator holds
MaxRoster == 3
\* most rows of a sample frame the metrics are called with
MaxRecords == 3
\* most rows of a frame whose variance rises or falls steadily
MaxRamp == 6
\* most insert_sample_data calls on one database
MaxInserts == 3
\* most work packages on the TAKT planning page
MaxPackages == 3
\* the days an insert_sample_data call writes rows for
Days == 2
\* the last second of the clock
MaxClock == 2

(***************************************************************************)
(* State.                                                                  *)
(***************************************************************************)
VARIABLES
    agents,     \* the agent instances built so far, an instance's identity being its index
    heap,       \* the dicts and lists of the program
    cv,         \* the running cross_validate call: its position and its locals
    last,       \* the call that finished last, with its arguments and its outcome
    pinned,     \* one earlier validate call, remembered with its result
    orch,       \* the running analyze_project call: its position and its locals
    par,        \* the cross_validate calls that run side by side, one record per thread
    store,      \* the database of the data service and the clock its inserts read
    report,     \* the call of the data service that finished last, with its result
    ui          \* the session state of the TAKT planning page and what the page shows

\* the state of the data service

(***************************************************************************)
(* Python values.  Every value is a record of the same shape so that any   *)
(* two values can be compared.                                             *)
(***************************************************************************)
PyNone == [tag |-> "None", id |-> 0, str |-> ""]
PyTrue == [tag |-> "bool", id |-> 0, str |-> "True"]
PyFalse == [tag |-> "bool", id |-> 0, str |-> "False"]
PyStr(s) == [tag |-> "str", id |-> 0, str |-> s]
\* a freshly built empty list or dict literal that nothing ever writes to
PyEmptyList == [tag |-> "list", id |-> 0, str |-> "[]"]
PyEmptyDict == [tag |-> "dict", id |-> 0, str |-> "{}"]
\* a reference to the heap object with this id
PyRef(i) == [tag |-> "ref", id |-> i, str |-> ""]
\* a key the dict does not hold
Absent == [tag |-> "absent", id |-> 0, str |-> ""]

PyBool(b) == IF b THEN PyTrue ELSE PyFalse

\* Python truthiness of a value
Truthy(v) ==
    CASE v.tag = "None" -> FALSE
      [] v.tag = "bool" -> v.str = "True"
      [] v.tag = "str" -> v.str # ""
      [] v.tag = "list" -> FALSE
      [] v.tag = "dict" -> FALSE
      [] OTHER -> TRUE

\* as PyAll, had validate chained its criteria with `and`: the first falsy
\* criterion itself, or the last one
PyAndChain(xs) ==
    IF \E i \in 1..Len(xs) : ~Truthy(xs[i])
    THEN xs[CHOOSE i \in 1..Len(xs) : ~Truthy(xs[i]) /\ \A j \in 1..(i - 1) : Truthy(xs[j])]
    ELSE IF Len(xs) = 0 THEN PyTrue ELSE xs[Len(xs)]

\* the builtin all(): a bool, TRUE iff every element is truthy
PyAll(xs) == PyBool(\A i \in 1..Len(xs) : Truthy(xs[i]))

(***************************************************************************)
(* The static roster: AGENT_CONFIGS of src/config.py, and the class that   *)
(* implements each entry.                                                  *)
(***************************************************************************)
ConfigKeys ==
    <<"strategy_architect", "workflow_specialist", "scheduling_engineer",
      "data_analyst", "risk_controller", "implementation_specialist">>

AGENT_CONFIGS(k) ==
    CASE k = "strategy_architect" ->
           [name |-> "Dr. TAKT Strategy Architect",
            expertise |-> "Portfolio & Enterprise-Level TAKT Implementation",
            model |-> "gpt-4-turbo"]
      [] k = "workflow_specialist" ->
           [name |-> "Dr. Workflow Optimization Specialist",
            expertise |-> "Process Efficiency & Flow Synchronization",
            model |-> "claude-3"]
      [] k = "scheduling_engineer" ->
           [name |-> "Dr. TAKT Scheduling & Resource Engineer",
            expertise |-> "Advanced Scheduling & Resource Allocation",
            model |-> "mixtral-8x7b"]
      [] k = "data_analyst" ->
           [name |-> "Dr. AI-Driven TAKT Data Analyst",
            expertise |-> "Predictive Analytics & AI Optimization",
            model |-> "gemini-pro"]
      [] k = "risk_controller" ->
           [name |-> "Dr. Risk & Variability Controller",
            expertise |-> "TAKT Risk Management & Adaptability",
            model |-> "command"]
      [] k = "implementation_specialist" ->
           [name |-> "Dr. Implementation & Training Specialist",
            expertise |-> "TAKT Adoption & Change Management",
            model |-> "emergence-latest"]

\* the class that implements an entry: _initialize_agents pairs the first entry
\* with StrategyArchitect; the other classes go with the entry of their name
ClassOf(k) ==
    CASE k = "strategy_architect" -> "StrategyArchitect"
      [] k = "workflow_specialist" -> "WorkflowSpecialist"
      [] k = "scheduling_engineer" -> "SchedulingEngineer"
      [] k = "data_analyst" -> "DataAnalyst"
      [] k = "risk_controller" -> "RiskController"
      [] k = "implementation_specialist" -> "ImplementationSpecialist"

Variants == {ClassOf(ConfigKeys[i]) : i \in 1..Len(ConfigKeys)}

\* TaktAgent.__init__: the instance keeps the fields of its config (the api_key
\* and the logger are kept too; no method reads them)
NewAgent(cls, config) ==
    [cls |-> cls, name |-> config.name, expertise |-> config.expertise,
     model |-> config.model]

\* a config written by a caller: the display name of the first entry of
\* AGENT_CONFIGS with the expertise and the model of the second
TwinConfig ==
    [AGENT_CONFIGS(ConfigKeys[1]) EXCEPT !.expertise = AGENT_CONFIGS(ConfigKeys[2]).expertise,
                                         !.model = AGENT_CONFIGS(ConfigKeys[2]).model]

(***************************************************************************)
(* The body of a method.  kind "pass": the body is `pass`, the call        *)
(* returns None.  kind "step": the body returns the dict literal           *)
(* {'step': label, 'analysis': {...}} after calling `calls` in order.      *)
(* kind "list": the body returns a list literal after calling `calls`.     *)
(* kind "train": _train_predict_model, which returns the error marker      *)
(* when _prepare_training_data gives no data.  kind "takt":                *)
(* _compute_takt_time, a number computed from the two calls.               *)
(***************************************************************************)
PassBody == [kind |-> "pass", step |-> "", calls |-> <<>>]
StepBody(label, calls) == [kind |-> "step", step |-> label, calls |-> calls]

(***************************************************************************)
(* class StrategyArchitect of src/agents/strategy_architect.py.            *)
(***************************************************************************)
\* the methods the class defines besides analyze and validate
StrategyArchitectMethods ==
    {"_define_objectives", "_analyze_current_state", "_assess_takt_feasibility",
     "_develop_roadmap", "_predict_risks", "_align_frameworks",
     "_generate_conclusions", "_generate_recommendations",
     "_validate_strategic_alignment", "_validate_resource_feasibility",
     "_validate_implementation_timeline"}

\* the list literal reasoning_steps of analyze
StrategyArchitectSteps ==
    <<"_define_objectives", "_analyze_current_state", "_assess_takt_feasibility",
      "_develop_roadmap", "_predict_risks", "_align_frameworks">>

\* the list literal validation_criteria of validate
StrategyArchitectCriteria ==
    <<"_validate_strategic_alignment", "_validate_resource_feasibility",
      "_validate_implementation_timeline">>

\* the bodies of these methods; every one not listed is `pass`
StrategyArchitectBody(m) ==
    CASE m = "_define_objectives" ->
           StepBody("Define Objectives",
               <<"_extract_business_goals", "_define_takt_goals", "_define_metrics">>)
      [] m = "_analyze_current_state" ->
           StepBody("Current State Analysis",
               <<"_assess_workflows", "_analyze_performance", "_identify_gaps">>)
      [] OTHER -> PassBody

(***************************************************************************)
(* class WorkflowSpecialist of src/agents/workflow_specialist.py.          *)
(***************************************************************************)
\* the methods the class defines besides analyze and validate
WorkflowSpecialistMethods ==
    {"_identify_bottlenecks", "_analyze_process_variability", "_optimize_workflows",
     "_structure_work_packages", "_validate_flow", "_simulate_workflows",
     "_generate_conclusions", "_generate_recommendations", "_validate_flow_efficiency",
     "_validate_resource_utilization", "_validate_cycle_times"}

\* the list literal reasoning_steps of analyze
WorkflowSpecialistSteps ==
    <<"_identify_bottlenecks", "_analyze_process_variability", "_optimize_workflows",
      "_structure_work_packages", "_validate_flow", "_simulate_workflows">>

\* the list literal validation_criteria of validate
WorkflowSpecialistCriteria ==
    <<"_validate_flow_efficiency", "_validate_resource_utilization",
      "_validate_cycle_times">>

\* the bodies of these methods; every one not listed is `pass`
WorkflowSpecialistBody(m) ==
    CASE m = "_identify_bottlenecks" ->
           StepBody("Bottleneck Analysis",
               <<"_map_processes", "_detect_bottlenecks", "_assess_bottleneck_impact">>)
      [] m = "_analyze_process_variability" ->
           StepBody("Process Variability Analysis",
               <<"_analyze_cycle_times", "_identify_patterns", "_determine_root_causes">>)
      [] OTHER -> PassBody

(***************************************************************************)
(* class SchedulingEngineer of src/agents/scheduling_engineer.py.          *)
(***************************************************************************)
\* the methods the class defines besides analyze and validate
SchedulingEngineerMethods ==
    {"_analyze_project_complexity", "_calculate_takt_time", "_compute_takt_time",
     "_determine_resources", "_sequence_tasks", "_prevent_overruns",
     "_adjust_variability", "_generate_conclusions", "_generate_recommendations",
     "_validate_schedule_feasibility", "_validate_resource_availability",
     "_validate_takt_time_calculations"}

\* the list literal reasoning_steps of analyze
SchedulingEngineerSteps ==
    <<"_analyze_project_complexity", "_calculate_takt_time", "_determine_resources",
      "_sequence_tasks", "_prevent_overruns", "_adjust_variability">>

\* the list literal validation_criteria of validate
SchedulingEngineerCriteria ==
    <<"_validate_schedule_feasibility", "_validate_resource_availability",
      "_validate_takt_time_calculations">>

\* the bodies of these methods; every one not listed is `pass`
SchedulingEngineerBody(m) ==
    CASE m = "_analyze_project_complexity" ->
           StepBody("Project Complexity Analysis",
               <<"_assess_scope", "_identify_dependencies", "_analyze_constraints">>)
      [] m = "_calculate_takt_time" ->
           StepBody("TAKT Time Calculation",
               <<"_analyze_demand", "_calculate_available_time", "_compute_takt_time">>)
      [] m = "_compute_takt_time" ->
           [kind |-> "takt", step |-> "", calls |->
               <<"_calculate_available_time", "_analyze_demand">>]
      [] m = "_determine_resources" ->
           StepBody("Resource Determination",
               <<"_calculate_crew_size", "_determine_equipment", "_calculate_materials">>)
      [] OTHER -> PassBody

(***************************************************************************)
(* class DataAnalyst of src/agents/data_analyst.py.                        *)
(***************************************************************************)
\* the methods the class defines besides analyze and validate
DataAnalystMethods ==
    {"_collect_historical_data", "_predict_performance", "_train_predict_model",
     "_identify_risks", "_optimize_resources", "_automate_decisions",
     "_compare_scenarios", "_generate_conclusions", "_generate_recommendations",
     "_validate_data_quality", "_validate_model_performance", "_validate_predictions",
     "_prepare_training_data"}

\* the list literal reasoning_steps of analyze
DataAnalystSteps ==
    <<"_collect_historical_data", "_predict_performance", "_identify_risks",
      "_optimize_resources", "_automate_decisions", "_compare_scenarios">>

\* the list literal validation_criteria of validate
DataAnalystCriteria ==
    <<"_validate_data_quality", "_validate_model_performance",
      "_validate_predictions">>

\* the bodies of these methods; every one not listed is `pass`
DataAnalystBody(m) ==
    CASE m = "_collect_historical_data" ->
           StepBody("Historical Data Collection",
               <<"_gather_project_data", "_collect_metrics", "_identify_patterns">>)
      [] m = "_predict_performance" ->
           StepBody("Performance Prediction",
               <<"_train_predict_model", "_evaluate_accuracy", "_generate_predictions">>)
      [] m = "_train_predict_model" ->
           [kind |-> "train", step |-> "", calls |-> <<"_prepare_training_data">>]
      [] OTHER -> PassBody

(***************************************************************************)
(* class RiskController of src/agents/risk_controller.py.                  *)
(***************************************************************************)
\* the methods the class defines besides analyze and validate
RiskControllerMethods ==
    {"_identify_project_risks", "_analyze_historical_variability", "_categorize_risks",
     "_develop_contingency_plans", "_implement_risk_mitigation",
     "_monitor_risk_indicators", "_adjust_takt_plans", "_generate_conclusions",
     "_generate_recommendations", "_validate_risk_assessment",
     "_validate_mitigation_strategies", "_validate_contingency_plans",
     "_assess_impact_level"}

\* the list literal reasoning_steps of analyze
RiskControllerSteps ==
    <<"_identify_project_risks", "_analyze_historical_variability",
      "_develop_contingency_plans", "_implement_risk_mitigation",
      "_monitor_risk_indicators", "_adjust_takt_plans">>

\* the list literal validation_criteria of validate
RiskControllerCriteria ==
    <<"_validate_risk_assessment", "_validate_mitigation_strategies",
      "_validate_contingency_plans">>

\* the bodies of these methods; every one not listed is `pass`
RiskControllerBody(m) ==
    CASE m = "_identify_project_risks" ->
           StepBody("Project Risk Identification",
               <<"_categorize_risks", "_identify_risk_factors", "_assess_risk_impact">>)
      [] m = "_analyze_historical_variability" ->
           StepBody("Historical Variability Analysis",
               <<"_analyze_disruptions", "_identify_patterns", "_extract_lessons">>)
      [] m = "_categorize_risks" ->
           [kind |-> "list", step |-> "", calls |->
               <<"_assess_impact_level", "_assess_impact_level", "_assess_impact_level", "_assess_impact_level">>]
      [] OTHER -> PassBody

(***************************************************************************)
(* class ImplementationSpecialist of src/agents/implementation_specialist.py.*)
(***************************************************************************)
\* the methods the class defines besides analyze and validate
ImplementationSpecialistMethods ==
    {"_assess_organizational_readiness", "_develop_training_modules",
     "_design_modules", "_design_change_management", "_customize_stakeholder_training",
     "_implement_feedback_system", "_measure_adoption_success",
     "_generate_conclusions", "_generate_recommendations",
     "_validate_training_effectiveness", "_validate_change_management",
     "_validate_adoption_metrics"}

\* the list literal reasoning_steps of analyze
ImplementationSpecialistSteps ==
    <<"_assess_organizational_readiness", "_develop_training_modules",
      "_design_change_management", "_customize_stakeholder_training",
      "_implement_feedback_system", "_measure_adoption_success">>

\* the list literal validation_criteria of validate
ImplementationSpecialistCriteria ==
    <<"_validate_training_effectiveness", "_validate_change_management",
      "_validate_adoption_metrics">>

\* the bodies of these methods; every one not listed is `pass`
ImplementationSpecialistBody(m) ==
    CASE m = "_assess_organizational_readiness" ->
           StepBody("Organizational Readiness Assessment",
               <<"_assess_capabilities", "_identify_training_needs", "_analyze_culture">>)
      [] m = "_develop_training_modules" ->
           StepBody("Training Module Development",
               <<"_design_modules", "_define_objectives", "_determine_methods">>)
      [] m = "_design_modules" -> [kind |-> "list", step |-> "", calls |-> <<>>]
      [] OTHER -> PassBody

(***************************************************************************)
(* The methods a class can be called with.  A call self.m(...) of a name   *)
(* that is in neither the class nor TaktAgent raises AttributeError.       *)
(***************************************************************************)
\* the methods of TaktAgent
BaseMethods == {"analyze", "validate", "chain_of_thought", "cross_validate"}

Methods(cls) ==
    BaseMethods \cup
    CASE cls = "StrategyArchitect" -> StrategyArchitectMethods
      [] cls = "WorkflowSpecialist" -> WorkflowSpecialistMethods
      [] cls = "SchedulingEngineer" -> SchedulingEngineerMethods
      [] cls = "DataAnalyst" -> DataAnalystMethods
      [] cls = "RiskController" -> RiskControllerMethods
      [] cls = "ImplementationSpecialist" -> ImplementationSpecialistMethods
      [] OTHER -> {}

Body(cls, m) ==
    CASE cls = "StrategyArchitect" -> StrategyArchitectBody(m)
      [] cls = "WorkflowSpecialist" -> WorkflowSpecialistBody(m)
      [] cls = "SchedulingEngineer" -> SchedulingEngineerBody(m)
      [] cls = "DataAnalyst" -> DataAnalystBody(m)
      [] cls = "RiskController" -> RiskControllerBody(m)
      [] cls = "ImplementationSpecialist" -> ImplementationSpecialistBody(m)
      [] OTHER -> PassBody

(***************************************************************************)
(* An agent outside the six variants: the smallest subclass that meets     *)
(* the TaktAgent interface, six step methods that each return a step       *)
(* mapping and two validation criteria that look for required fields.      *)
(***************************************************************************)
Conforming == "ConformingAgent"

ConformingSteps == <<"_step_1", "_step_2", "_step_3", "_step_4", "_step_5", "_step_6">>

ConformingMethods ==
    {ConformingSteps[i] : i \in 1..Len(ConformingSteps)}
        \cup {"_generate_conclusions", "_generate_recommendations"}

ConformingBody(m) ==
    IF \E i \in 1..Len(ConformingSteps) : ConformingSteps[i] = m
    THEN StepBody(m, <<>>)
    ELSE [kind |-> "list", step |-> "", calls |-> <<>>]

\* what a class can be called with: its own methods and the inherited ones
MethodsOf(cls) == IF cls = Conforming THEN BaseMethods \cup ConformingMethods ELSE Methods(cls)

BodyOf(cls, m) == IF cls = Conforming THEN ConformingBody(m) ELSE Body(cls, m)

(***************************************************************************)
(* Calling self.m(context).  The outcome is either a raised AttributeError *)
(* naming the missing method, or the returned value.                       *)
(***************************************************************************)
Raised(m) == [raised |-> TRUE, missing |-> m, val |-> PyNone]
Returned(v) == [raised |-> FALSE, missing |-> "", val |-> v]

PyStep(label) == [tag |-> "step", id |-> 0, str |-> label]
PyListLiteral == [tag |-> "obj", id |-> 0, str |-> "list"]
PyNumber == [tag |-> "obj", id |-> 0, str |-> "number"]
PyModelResults == [tag |-> "obj", id |-> 0, str |-> "model results"]
PyErrorMarker == [tag |-> "error", id |-> 0, str |-> "Insufficient data for model training"]

RECURSIVE Call(_, _)
RECURSIVE CallAll(_, _, _)

\* the calls of a body, left to right: the first one that raises ends them
CallAll(cls, calls, done) ==
    IF Len(done) = Len(calls) THEN [raised |-> FALSE, missing |-> "", vals |-> done]
    ELSE LET r == Call(cls, calls[Len(done) + 1])
         IN  IF r.raised THEN [raised |-> TRUE, missing |-> r.missing, vals |-> done]
             ELSE CallAll(cls, calls, Append(done, r.val))

Call(cls, m) ==
    IF m \notin MethodsOf(cls) THEN Raised(m)
    ELSE LET b == BodyOf(cls, m)
             r == CallAll(cls, b.calls, <<>>)
         IN  IF r.raised THEN Raised(r.missing)
             ELSE CASE b.kind = "pass" -> Returned(PyNone)
                    [] b.kind = "step" -> Returned(PyStep(b.step))
                    [] b.kind = "list" -> Returned(PyListLiteral)
                    [] b.kind = "train" ->
                         \* if data is None or len(data) == 0: return {'error': ...}
                         IF r.vals[1] = PyNone THEN Returned(PyErrorMarker)
                         ELSE Returned(PyModelResults)
                    [] b.kind = "takt" -> Returned(PyNumber)

(***************************************************************************)
(* analyze: the six step methods of the class, called in order while the   *)
(* list literal is built, then the conclusions and the recommendations.    *)
(***************************************************************************)
StepMethods(cls) ==
    CASE cls = "StrategyArchitect" -> StrategyArchitectSteps
      [] cls = "WorkflowSpecialist" -> WorkflowSpecialistSteps
      [] cls = "SchedulingEngineer" -> SchedulingEngineerSteps
      [] cls = "DataAnalyst" -> DataAnalystSteps
      [] cls = "RiskController" -> RiskControllerSteps
      [] cls = "ImplementationSpecialist" -> ImplementationSpecialistSteps
      [] OTHER -> ConformingSteps

\* the outcome of analyze(context): raised, or the step results and the two
\* derived fields
analyze(cls) ==
    LET steps == CallAll(cls, StepMethods(cls), <<>>)
        tail == CallAll(cls, <<"_generate_conclusions", "_generate_recommendations">>, <<>>)
    IN  IF steps.raised
        THEN [raised |-> TRUE, missing |-> steps.missing, steps |-> <<>>,
              conclusions |-> PyNone, recommendations |-> PyNone]
        ELSE IF tail.raised
        THEN [raised |-> TRUE, missing |-> tail.missing, steps |-> <<>>,
              conclusions |-> PyNone, recommendations |-> PyNone]
        ELSE [raised |-> FALSE, missing |-> "", steps |-> steps.vals,
              conclusions |-> tail.vals[1], recommendations |-> tail.vals[2]]

(***************************************************************************)
(* validate: the three criteria of the class, collected in a list, and     *)
(* all() of the list.  `items` is the mapping of the analysis.             *)
(***************************************************************************)
ValidationCriteria(cls) ==
    CASE cls = "StrategyArchitect" -> StrategyArchitectCriteria
      [] cls = "WorkflowSpecialist" -> WorkflowSpecialistCriteria
      [] cls = "SchedulingEngineer" -> SchedulingEngineerCriteria
      [] cls = "DataAnalyst" -> DataAnalystCriteria
      [] cls = "RiskController" -> RiskControllerCriteria
      [] cls = "ImplementationSpecialist" -> ImplementationSpecialistCriteria

\* the criteria of the conforming agent: the required fields are there
ConformingCriteria(items) ==
    <<PyBool(items["agent_name"] # Absent), PyBool(items["reasoning_steps"] # Absent)>>

\* as validate, had the verdict leaned on the validating agent's own prior work:
\* it approves only right after an analyze call
ValidateAfterAnalyze(cls, items) == Returned(PyBool(last.op = "analyze"))

validate(cls, items) ==
    IF cls = Conforming THEN Returned(PyAll(ConformingCriteria(items)))
    ELSE LET r == CallAll(cls, ValidationCriteria(cls), <<>>)
         IN  IF r.raised THEN Raised(r.missing) ELSE Returned(PyAll(r.vals))

(***************************************************************************)
(* The heap: a sequence of objects, an object's id being its index.  A     *)
(* dict maps every key to a value or to Absent, a list holds elements.     *)
(***************************************************************************)
AnalysisKeys ==
    {"agent_name", "expertise", "context", "reasoning_steps", "conclusions",
     "recommendations", "validation", "cross_validation_needed"}
ResultsKey == "cross_validation_results"
ContextKeys == {"project_type"}
Keys == AnalysisKeys \cup {ResultsKey} \cup ContextKeys

NoItems == [k \in Keys |-> Absent]
DictObj(items) == [kind |-> "dict", items |-> items, elems |-> <<>>]
ListObj(elems) == [kind |-> "list", items |-> NoItems, elems |-> elems]
\* a dict literal {k1: v1, ...}
DictOf(f) == DictObj([k \in Keys |-> IF k \in DOMAIN f THEN f[k] ELSE Absent])

\* d[k] = v on the object with this id
SetItem(h, id, k, v) == [h EXCEPT ![id].items[k] = v]
\* l.append(e) on the object with this id
ListAppend(h, id, e) == [h EXCEPT ![id].elems = Append(@, e)]

\* an object with everything its values refer to, one level down
Deep(h, id) ==
    [obj |-> h[id],
     nested |-> {<<k, h[h[id].items[k].id]>> : k \in {j \in Keys : h[id].items[j].tag = "ref"}}]

\* as chain_of_thought, had the record carried the empty context instead of the
\* caller's
ChainOfEmptyContext(agent, context) ==
    DictOf([agent_name |-> PyStr(agent.name),
            expertise |-> PyStr(agent.expertise),
            context |-> PyRef(1),
            reasoning_steps |-> PyEmptyList,
            conclusions |-> PyEmptyList,
            recommendations |-> PyEmptyList,
            validation |-> PyEmptyDict,
            cross_validation_needed |-> PyTrue])

\* TaktAgent.chain_of_thought: the base analysis record of an agent
chain_of_thought(agent, context) ==
    DictOf([agent_name |-> PyStr(agent.name),
            expertise |-> PyStr(agent.expertise),
            context |-> PyRef(context),
            reasoning_steps |-> PyEmptyList,
            conclusions |-> PyEmptyList,
            recommendations |-> PyEmptyList,
            validation |-> PyEmptyDict,
            cross_validation_needed |-> PyTrue])

(***************************************************************************)
(* The objects and the agents before any call.                             *)
(***************************************************************************)
\* the six agents of the static roster, one per entry of AGENT_CONFIGS
ConfiguredAgents ==
    [i \in 1..Len(ConfigKeys) |-> NewAgent(ClassOf(ConfigKeys[i]), AGENT_CONFIGS(ConfigKeys[i]))]

\* the instances a pool is drawn from: two variants built from their own entries
\* of AGENT_CONFIGS, a variant built from the caller's config and a conforming
\* agent built from the first entry; the last two carry the first one's display
\* name
PoolAgents ==
    {NewAgent(ClassOf(ConfigKeys[1]), AGENT_CONFIGS(ConfigKeys[1])),
     NewAgent(ClassOf(ConfigKeys[2]), AGENT_CONFIGS(ConfigKeys[2])),
     NewAgent(ClassOf(ConfigKeys[1]), TwinConfig),
     NewAgent(Conforming, AGENT_CONFIGS(ConfigKeys[1]))}

\* the objects the caller holds before any call: two contexts (the empty one and a
\* filled one), the empty analysis and the base analysis of the first agent
BaseHeap ==
    << DictOf(<<>>),
       DictOf([project_type |-> PyStr("Construction")]),
       DictOf(<<>>),
       chain_of_thought(ConfiguredAgents[1], 2) >>

InputContexts == {1, 2}
InputAnalyses == {3, 4}
BaseLen == Len(BaseHeap)

\* the caller drops what the previous call returned
Release(h) == SubSeq(h, 1, BaseLen)

NoCall ==
    [op |-> "none", agent |-> 0, arg |-> 0, raised |-> FALSE, missing |-> "",
     val |-> PyNone, before |-> Deep(BaseHeap, 1)]

NoPin == [agent |-> 0, arg |-> 0, items |-> NoItems, val |-> PyNone]

CvIdle ==
    [pc |-> "idle", self |-> 0, peers |-> <<>>, analysis |-> 0, validated |-> 0,
     i |-> 0, validation |-> PyNone, missing |-> "", before |-> Deep(BaseHeap, 1),
     called |-> <<>>]

NoSynthesis ==
    [strategic_recommendations |-> Absent, implementation_plan |-> Absent,
     risk_mitigation |-> Absent, success_metrics |-> Absent]

OrchIdle ==
    [pc |-> "idle", context |-> 0, k |-> 0, analyses |-> <<>>, validated |-> <<>>,
     recommendations |-> NoSynthesis, failed |-> ""]

\* the database right after initialize_database: four tables without rows; and
\* the clock
EmptyStore ==
    [performance_metrics |-> <<>>, resource_utilization |-> <<>>, risk_events |-> <<>>,
     takt_metrics |-> <<>>, now |-> 1]

\* no call of the data service has finished yet
NoReport == [op |-> "none", data |-> <<>>, out |-> <<>>]

\* the caller holds the base objects and no call has been made
\* the TAKT planning page on its first visit: no work package, no status, no
\* timeline
FirstVisit == [work_packages |-> <<>>, status |-> <<>>, tasks |-> <<>>, last |-> "visit"]

Fresh ==
    /\ heap = BaseHeap
    /\ cv = CvIdle
    /\ last = NoCall
    /\ pinned = NoPin
    /\ orch = OrchIdle
    /\ par = <<>>
    /\ store = EmptyStore
    /\ report = NoReport
    /\ ui = FirstVisit

\* the agents of the static roster, called directly
DirectInit == agents = ConfiguredAgents /\ Fresh

\* a pool of instances, some of which may share a display name
PoolInit == agents \in [1..PoolSize -> PoolAgents] /\ Fresh

AgentIds == 1..Len(agents)

\* every list of at most MaxPeers agents
PeerLists == UNION {[1..n -> AgentIds] : n \in 0..MaxPeers}

\* every list of at most MaxDirectPeers agents
DirectPeerLists == UNION {[1..n -> AgentIds] : n \in 0..MaxDirectPeers}

(***************************************************************************)
(* analyze(context) on an agent, called directly.                          *)
(***************************************************************************)
\* the heap after analyze returned: the list of step results and the analysis
\* record that refers to it
AnalysisObjects(h, agent, context, r) ==
    LET steps == Len(h) + 1
        base == chain_of_thought(agent, context)
    IN  h \o << ListObj(r.steps),
                [base EXCEPT !.items["reasoning_steps"] = PyRef(steps),
                             !.items["conclusions"] = r.conclusions,
                             !.items["recommendations"] = r.recommendations] >>

DoAnalyze(a, c) ==
    /\ cv.pc = "idle"
    /\ LET r == analyze(agents[a].cls)
           h == Release(heap)
       IN  /\ heap' = IF r.raised THEN h ELSE AnalysisObjects(h, agents[a], c, r)
           /\ last' = [NoCall EXCEPT !.op = "analyze", !.agent = a, !.arg = c,
                                     !.raised = r.raised, !.missing = r.missing,
                                     !.val = IF r.raised THEN PyNone ELSE PyRef(Len(h) + 2),
                                     !.before = Deep(heap, c)]
    /\ UNCHANGED <<agents, cv, pinned, orch, par, store, report, ui>>

(***************************************************************************)
(* validate(analysis) on an agent, called directly.                        *)
(***************************************************************************)
DoValidate(a, x) ==
    /\ cv.pc = "idle"
    /\ LET r == validate(agents[a].cls, heap[x].items)
       IN  last' = [NoCall EXCEPT !.op = "validate", !.agent = a, !.arg = x,
                                  !.raised = r.raised, !.missing = r.missing,
                                  !.val = r.val, !.before = Deep(heap, x)]
    /\ heap' = Release(heap)
    /\ UNCHANGED <<agents, cv, pinned, orch, par, store, report, ui>>

\* remember the validate call that just finished
Pin ==
    /\ last.op = "validate"
    /\ ~last.raised
    /\ pinned.agent = 0
    /\ pinned' = [agent |-> last.agent, arg |-> last.arg,
                  items |-> last.before.obj.items, val |-> last.val]
    /\ UNCHANGED <<agents, heap, cv, last, orch, par, store, report, ui>>

(***************************************************************************)
(* cross_validate(other_agents, analysis) on an agent, statement by        *)
(* statement.                                                              *)
(***************************************************************************)
\* as DictCopy, had the method bound validated_analysis to the analysis itself
DictAlias(h, id) == [heap |-> h, ref |-> id]

\* analysis.copy(): a new dict with the same items (the values are shared)
DictCopy(h, id) == [heap |-> Append(h, DictObj(h[id].items)), ref |-> Len(h) + 1]

\* `if agent.name != self.name`: the peers the loop asks
IsOther(self, peer) == peer.name # self.name

\* the dict literal the loop appends
ResultEntry(peer, validation) == [validator |-> peer.name, validated |-> validation]

\* as ResultsOf, had the results been kept in one list for all calls: the list
\* created first
SharedResults(h, id) ==
    CHOOSE l \in 1..Len(h) :
        /\ l > BaseLen /\ h[l].kind = "list"
        /\ \A j \in (BaseLen + 1)..(l - 1) : h[j].kind # "list"

\* the list validated_analysis['cross_validation_results'] refers to right now
ResultsOf(h, id) == h[id].items[ResultsKey].id

CVCall(a, ps, x) ==
    /\ cv.pc = "idle"
    /\ orch.pc = "idle"
    /\ cv' = [CvIdle EXCEPT !.pc = "copy", !.self = a, !.peers = ps, !.analysis = x,
                            !.i = 1, !.before = Deep(heap, x)]
    /\ heap' = Release(heap)
    /\ last' = NoCall
    /\ UNCHANGED <<agents, pinned, orch, par, store, report, ui>>

\* validated_analysis = analysis.copy()
CVCopy ==
    /\ cv.pc = "copy"
    /\ LET c == DictCopy(heap, cv.analysis)
       IN  /\ heap' = c.heap
           /\ cv' = [cv EXCEPT !.pc = "init", !.validated = c.ref]
    /\ UNCHANGED <<agents, last, pinned, orch, par, store, report, ui>>

\* validated_analysis['cross_validation_results'] = []
CVInit ==
    /\ cv.pc = "init"
    /\ heap' = SetItem(Append(heap, ListObj(<<>>)), cv.validated, ResultsKey,
                       PyRef(Len(heap) + 1))
    /\ cv' = [cv EXCEPT !.pc = "loop"]
    /\ UNCHANGED <<agents, last, pinned, orch, par, store, report, ui>>

\* for agent in other_agents: if agent.name != self.name:
\*     validation = agent.validate(analysis)
CVLoop ==
    /\ cv.pc = "loop"
    /\ cv.i <= Len(cv.peers)
    /\ LET peer == agents[cv.peers[cv.i]]
           r == validate(peer.cls, heap[cv.analysis].items)
       IN  IF ~IsOther(agents[cv.self], peer)
           THEN cv' = [cv EXCEPT !.i = @ + 1]
           ELSE IF r.raised
           THEN cv' = [cv EXCEPT !.pc = "raised", !.missing = r.missing,
                                 !.called = Append(@, cv.peers[cv.i])]
           ELSE cv' = [cv EXCEPT !.pc = "append", !.validation = r.val,
                                 !.called = Append(@, cv.peers[cv.i])]
    /\ UNCHANGED <<agents, heap, last, pinned, orch, par, store, report, ui>>

\* validated_analysis['cross_validation_results'].append({...})
CVAppend ==
    /\ cv.pc = "append"
    /\ heap' = ListAppend(heap, ResultsOf(heap, cv.validated),
                          ResultEntry(agents[cv.peers[cv.i]], cv.validation))
    /\ cv' = [cv EXCEPT !.pc = "loop", !.i = @ + 1]
    /\ UNCHANGED <<agents, last, pinned, orch, par, store, report, ui>>

\* the loop is over: the call stands at `return validated_analysis`
AtReturn == cv.pc = "loop" /\ cv.i > Len(cv.peers)

\* return validated_analysis, or the exception of a validate call leaves the
\* method; the caller takes the result and drops it
CVReturn ==
    /\ AtReturn \/ cv.pc = "raised"
    /\ orch.pc = "idle"
    /\ last' = [NoCall EXCEPT !.op = "cross_validate", !.agent = cv.self,
                              !.arg = cv.analysis, !.raised = (cv.pc = "raised"),
                              !.missing = cv.missing, !.before = cv.before]
    /\ cv' = CvIdle
    /\ heap' = Release(heap)
    /\ UNCHANGED <<agents, pinned, orch, par, store, report, ui>>

(***************************************************************************)
(* TaktOrchestrator.  self.agents is a dict in insertion order; `agents`   *)
(* holds its values and entry number i stands for its i-th key.            *)
(***************************************************************************)
\* the registry _initialize_agents builds: the strategy architect alone
InitializeAgents == <<NewAgent("StrategyArchitect", AGENT_CONFIGS("strategy_architect"))>>

\* the instances a registry is filled from: the registered variant and conforming
\* agents built from the first two entries of AGENT_CONFIGS
RosterAgents ==
    {InitializeAgents[1], NewAgent(Conforming, AGENT_CONFIGS(ConfigKeys[1])),
     NewAgent(Conforming, AGENT_CONFIGS(ConfigKeys[2]))}

\* registries of one to MaxRoster agents, the constructed one among them
OrchInit == agents \in UNION {[1..n -> RosterAgents] : n \in 1..MaxRoster} /\ Fresh

\* as AllAnalyzed, had the loop been left after its first entry
FirstAnalyzed(o) == o.k > 1

\* `for agent_name, agent in self.agents.items()` has gone through every entry
AllAnalyzed(o) == o.k > Len(agents)

\* `for agent_name, analysis in analyses.items()` has gone through every entry
AllValidated(o) == o.k > Len(o.analyses)

\* [a for n, a in self.agents.items() if n != agent_name]
OtherAgents(k) == SelectSeq([i \in 1..Len(agents) |-> i], LAMBDA j : j # k)

\* as SynthesizeRecommendations, had a synthesis kept what the one before it
\* produced: the first part is None only when no synthesis came before
SynthesizeAfterEarlier(validated) ==
    [strategic_recommendations |->
         IF orch.recommendations.strategic_recommendations = Absent
         THEN PyNone ELSE PyEmptyList,
     implementation_plan |-> PyNone, risk_mitigation |-> PyNone,
     success_metrics |-> PyNone]

\* _synthesize_recommendations: the four parts, each from a method whose body is
\* `pass`
SynthesizeRecommendations(validated) ==
    [strategic_recommendations |-> PyNone, implementation_plan |-> PyNone,
     risk_mitigation |-> PyNone, success_metrics |-> PyNone]

\* analyze_project(project_context) is called; analyses = {}
OStart(c) ==
    /\ orch.pc \in {"idle", "returned", "raised", "synthesized"}
    /\ orch' = [OrchIdle EXCEPT !.pc = "analyze", !.context = c, !.k = 1]
    /\ heap' = Release(heap)
    /\ UNCHANGED <<agents, cv, last, pinned, par, store, report, ui>>

\* analyses[agent_name] = agent.analyze(project_context); an exception of analyze
\* leaves analyze_project
OAnalyze ==
    /\ orch.pc = "analyze"
    /\ ~AllAnalyzed(orch)
    /\ LET agent == agents[orch.k]
           r == analyze(agent.cls)
       IN  IF r.raised
           THEN /\ orch' = [orch EXCEPT !.pc = "raised", !.failed = r.missing]
                /\ heap' = heap
           ELSE /\ heap' = AnalysisObjects(heap, agent, orch.context, r)
                /\ orch' = [orch EXCEPT !.k = @ + 1,
                                        !.analyses = Append(@, Len(heap) + 2)]
    /\ UNCHANGED <<agents, cv, last, pinned, par, store, report, ui>>

\* validated_analyses = self._cross_validate_analyses(analyses) is entered
OBeginValidation ==
    /\ orch.pc = "analyze"
    /\ AllAnalyzed(orch)
    /\ orch' = [orch EXCEPT !.pc = "cross_validate", !.k = 1]
    /\ UNCHANGED <<agents, heap, cv, last, pinned, par, store, report, ui>>

\* self.agents[agent_name].cross_validate(other_agents, analysis) is called
OCrossValidate ==
    /\ orch.pc = "cross_validate"
    /\ ~AllValidated(orch)
    /\ cv.pc = "idle"
    /\ orch.k <= Len(agents)
    /\ cv' = [CvIdle EXCEPT !.pc = "copy", !.self = orch.k, !.peers = OtherAgents(orch.k),
                            !.analysis = orch.analyses[orch.k], !.i = 1,
                            !.before = Deep(heap, orch.analyses[orch.k])]
    /\ UNCHANGED <<agents, heap, last, pinned, orch, par, store, report, ui>>

\* validated_analyses[agent_name] = the returned structure; an exception of
\* cross_validate leaves analyze_project
OCrossValidated ==
    /\ orch.pc = "cross_validate"
    /\ AtReturn \/ cv.pc = "raised"
    /\ orch' = IF cv.pc = "raised"
               THEN [orch EXCEPT !.pc = "raised", !.failed = cv.missing]
               ELSE [orch EXCEPT !.k = @ + 1, !.validated = Append(@, cv.validated)]
    /\ cv' = CvIdle
    /\ UNCHANGED <<agents, heap, last, pinned, par, store, report, ui>>

\* _cross_validate_analyses returns
OEndValidation ==
    /\ orch.pc = "cross_validate"
    /\ AllValidated(orch)
    /\ cv.pc = "idle"
    /\ orch' = [orch EXCEPT !.pc = "synthesize"]
    /\ UNCHANGED <<agents, heap, cv, last, pinned, par, store, report, ui>>

\* the dict analyze_project returns
AnalyzeProjectResult(o) ==
    [individual_analyses |-> o.validated,
     synthesized_recommendations |-> o.recommendations,
     project_context |-> PyRef(o.context)]

\* final_recommendations = self._synthesize_recommendations(validated_analyses),
\* and the result is returned
OSynthesize ==
    /\ orch.pc = "synthesize"
    /\ orch' = [orch EXCEPT !.pc = "returned",
                            !.recommendations = SynthesizeRecommendations(orch.validated)]
    /\ UNCHANGED <<agents, heap, cv, last, pinned, par, store, report, ui>>

(***************************************************************************)
(* cross_validate calls side by side: threads that run the method on the   *)
(* same analysis object, one statement at a time, in any interleaving.     *)
(* par holds one record per thread, of the shape of cv.                    *)
(***************************************************************************)
\* the whole registry as other_agents
EveryAgent == [i \in 1..Len(agents) |-> i]

\* two agents are handed the same analysis and every agent as peers, each on a
\* thread of its own
ParCall(a, b, x) ==
    /\ par = <<>>
    /\ cv.pc = "idle"
    /\ orch.pc = "idle"
    /\ par' = [t \in 1..Len(<<a, b>>) |->
                  [CvIdle EXCEPT !.pc = "copy", !.self = <<a, b>>[t], !.peers = EveryAgent,
                                 !.analysis = x, !.i = 1, !.before = Deep(heap, x)]]
    /\ heap' = Release(heap)
    /\ UNCHANGED <<agents, cv, last, pinned, orch, store, report, ui>>

\* validated_analysis = analysis.copy(), on thread t
ParCopy(t) ==
    /\ par[t].pc = "copy"
    /\ LET c == DictCopy(heap, par[t].analysis)
       IN  /\ heap' = c.heap
           /\ par' = [par EXCEPT ![t].pc = "init", ![t].validated = c.ref]
    /\ UNCHANGED <<agents, cv, last, pinned, orch, store, report, ui>>

\* validated_analysis['cross_validation_results'] = [], on thread t
ParInit(t) ==
    /\ par[t].pc = "init"
    /\ heap' = SetItem(Append(heap, ListObj(<<>>)), par[t].validated, ResultsKey,
                       PyRef(Len(heap) + 1))
    /\ par' = [par EXCEPT ![t].pc = "loop"]
    /\ UNCHANGED <<agents, cv, last, pinned, orch, store, report, ui>>

\* the head of the loop and agent.validate(analysis), on thread t
ParLoop(t) ==
    /\ par[t].pc = "loop"
    /\ par[t].i <= Len(par[t].peers)
    /\ LET peer == agents[par[t].peers[par[t].i]]
           r == validate(peer.cls, heap[par[t].analysis].items)
       IN  IF ~IsOther(agents[par[t].self], peer)
           THEN par' = [par EXCEPT ![t].i = @ + 1]
           ELSE IF r.raised
           THEN par' = [par EXCEPT ![t].pc = "raised", ![t].missing = r.missing]
           ELSE par' = [par EXCEPT ![t].pc = "append", ![t].validation = r.val]
    /\ UNCHANGED <<agents, heap, cv, last, pinned, orch, store, report, ui>>

\* validated_analysis['cross_validation_results'].append({...}), on thread t
ParAppend(t) ==
    /\ par[t].pc = "append"
    /\ heap' = ListAppend(heap, ResultsOf(heap, par[t].validated),
                          ResultEntry(agents[par[t].peers[par[t].i]], par[t].validation))
    /\ par' = [par EXCEPT ![t].pc = "loop", ![t].i = @ + 1]
    /\ UNCHANGED <<agents, cv, last, pinned, orch, store, report, ui>>

\* thread t stands at `return validated_analysis`, or an exception left it
ParDone(t) ==
    \/ par[t].pc = "loop" /\ par[t].i > Len(par[t].peers)
    \/ par[t].pc = "raised"

\* every thread is over; the caller takes the results and drops them
ParJoin ==
    /\ par # <<>>
    /\ \A t \in 1..Len(par) : ParDone(t)
    /\ par' = <<>>
    /\ heap' = Release(heap)
    /\ UNCHANGED <<agents, cv, last, pinned, orch, store, report, ui>>

ParNext ==
    \/ \E a, b \in AgentIds, x \in InputAnalyses : ParCall(a, b, x)
    \/ \E t \in 1..Len(par) : ParCopy(t)
    \/ \E t \in 1..Len(par) : ParInit(t)
    \/ \E t \in 1..Len(par) : ParLoop(t)
    \/ \E t \in 1..Len(par) : ParAppend(t)
    \/ ParJoin

\* the validated analyses a synthesis is called with directly: up to two of the
\* caller's analyses, the one without reasoning steps and the one whose
\* reasoning steps are empty
ValidatedInputs == UNION {[1..n -> InputAnalyses] : n \in 0..Cardinality(InputAnalyses)}

\* _synthesize_recommendations(validated_analyses), called on its own
DoSynthesize(validated) ==
    /\ orch.pc \in {"idle", "returned", "raised", "synthesized"}
    /\ orch' = [OrchIdle EXCEPT !.pc = "synthesized", !.validated = validated,
                                !.recommendations = SynthesizeRecommendations(validated)]
    /\ heap' = Release(heap)
    /\ UNCHANGED <<agents, cv, last, pinned, par, store, report, ui>>

(***************************************************************************)
(* Floating-point numbers.  A finite number is the fraction n/d in lowest  *)
(* terms, d a power of two; every result of an operation is rounded to     *)
(* Precision significant bits, to nearest, ties to even, as IEEE 754       *)
(* arithmetic rounds to 53.  Division by zero gives an infinity or NaN,    *)
(* as the arithmetic of pandas columns does, and raises nothing.           *)
(***************************************************************************)
RECURSIVE Pow2(_)
Pow2(k) == IF k = 0 THEN 1 ELSE 2 * Pow2(k - 1)

Abs(x) == IF x < 0 THEN -x ELSE x

NaN == [tag |-> "nan", n |-> 0, d |-> 1]
\* the infinity of this sign (1 or -1)
Inf(sign) == [tag |-> "inf", n |-> sign, d |-> 1]
Zero == [tag |-> "num", n |-> 0, d |-> 1]

Sign(x) == IF x.n < 0 THEN -1 ELSE IF x.n > 0 THEN 1 ELSE 0

\* m * 2^e as a fraction in lowest terms
RECURSIVE Dyadic(_, _)
Dyadic(m, e) ==
    IF e >= 0 THEN [tag |-> "num", n |-> m * Pow2(e), d |-> 1]
    ELSE IF m % 2 = 0 THEN Dyadic(m \div 2, e + 1)
    ELSE [tag |-> "num", n |-> m, d |-> Pow2(-e)]

\* n/d = q * 2^e with 2^(Precision-1) <= q < 2^Precision, for n, d > 0
RECURSIVE Normalize(_, _, _)
Normalize(n, d, e) ==
    IF n < Pow2(Precision - 1) * d THEN Normalize(2 * n, d, e - 1)
    ELSE IF n >= Pow2(Precision) * d THEN Normalize(n, 2 * d, e + 1)
    ELSE [n |-> n, d |-> d, e |-> e]

\* the float nearest to n/d (d > 0), ties to the even significand
Round(n, d) ==
    IF n = 0 THEN Zero
    ELSE LET s == Normalize(Abs(n), d, 0)
             m == s.n \div s.d
             r == s.n % s.d
             up == 2 * r > s.d \/ (2 * r = s.d /\ m % 2 = 1)
             mag == IF up THEN m + 1 ELSE m
         IN  Dyadic((IF n < 0 THEN -1 ELSE 1) * mag, s.e)

\* the float of a literal written n/d, and of an integer
Float(n, d) == Round(n, d)
FloatOf(k) == Round(k, 1)

FAdd(a, b) ==
    IF a.tag = "nan" \/ b.tag = "nan" THEN NaN
    ELSE IF a.tag = "inf" /\ b.tag = "inf" THEN (IF a.n = b.n THEN a ELSE NaN)
    ELSE IF a.tag = "inf" THEN a
    ELSE IF b.tag = "inf" THEN b
    ELSE Round(a.n * b.d + b.n * a.d, a.d * b.d)

FSub(a, b) == FAdd(a, IF b.tag = "nan" THEN NaN ELSE [b EXCEPT !.n = -b.n])

FMul(a, b) ==
    IF a.tag = "nan" \/ b.tag = "nan" THEN NaN
    ELSE IF a.tag = "inf" \/ b.tag = "inf"
    THEN (IF Sign(a) * Sign(b) = 0 THEN NaN ELSE Inf(Sign(a) * Sign(b)))
    ELSE Round(a.n * b.n, a.d * b.d)

FDiv(a, b) ==
    IF a.tag = "nan" \/ b.tag = "nan" THEN NaN
    ELSE IF a.tag = "inf" THEN (IF b.tag = "inf" THEN NaN
                                ELSE Inf(a.n * (IF Sign(b) < 0 THEN -1 ELSE 1)))
    ELSE IF b.tag = "inf" THEN Zero
    ELSE IF b.n = 0 THEN (IF a.n = 0 THEN NaN ELSE Inf(Sign(a)))
    ELSE Round(a.n * b.d * Sign(b), a.d * Abs(b.n))

\* a < b; every comparison with NaN is false
FLt(a, b) ==
    IF a.tag = "nan" \/ b.tag = "nan" THEN FALSE
    ELSE IF a.tag = "inf" THEN a.n < 0 /\ ~(b.tag = "inf" /\ b.n < 0)
    ELSE IF b.tag = "inf" THEN b.n > 0
    ELSE a.n * b.d < b.n * a.d


FLeq(a, b) == FLt(a, b) \/ (a.tag # "nan" /\ b.tag # "nan" /\ a = b)

FGt(a, b) == FLt(b, a)

\* the sum of a column, left to right from 0.0
RECURSIVE FSum(_)
FSum(xs) == IF Len(xs) = 0 THEN Zero ELSE FAdd(FSum(SubSeq(xs, 1, Len(xs) - 1)), xs[Len(xs)])

\* the float nearest to the square root of a finite x > 0: the significand m with
\* m^2 <= x / 4^e < (m+1)^2, rounded up when x / 4^e is nearer to (m+1)^2
RECURSIVE SqrtScale(_, _, _)
SqrtScale(n, d, e) ==
    IF n < Pow2(2 * (Precision - 1)) * d THEN SqrtScale(4 * n, d, e - 1)
    ELSE IF n >= Pow2(2 * Precision) * d THEN SqrtScale(n, 4 * d, e + 1)
    ELSE [n |-> n, d |-> d, e |-> e]

FSqrt(x) ==
    IF x.tag = "nan" THEN NaN
    ELSE IF x.tag = "inf" THEN (IF x.n > 0 THEN x ELSE NaN)
    ELSE IF x.n < 0 THEN NaN
    ELSE IF x.n = 0 THEN Zero
    ELSE LET s == SqrtScale(x.n, x.d, 0)
             m == CHOOSE k \in Pow2(Precision - 1)..(Pow2(Precision) - 1) :
                      k * k * s.d <= s.n /\ (k + 1) * (k + 1) * s.d > s.n
             up == (2 * m + 1) * (2 * m + 1) * s.d < 4 * s.n
         IN  Dyadic(IF up THEN m + 1 ELSE m, s.e)

\* as DurationRecord, had the variance been taken the other way round
RecordOfSavings(package, planned, actual) ==
    [work_package |-> package,
     planned_duration |-> planned,
     actual_duration |-> actual,
     variance |-> FSub(planned, actual),
     bottleneck_factor |-> FDiv(actual, planned)]

(***************************************************************************)
(* The metrics of TaktDataService.  A data frame is the sequence of its    *)
(* rows, a row a record of the columns of takt_metrics the metrics read.   *)
(***************************************************************************)
\* the row insert_sample_data writes for a work package: the variance and the
\* bottleneck factor are computed from the two durations
DurationRecord(package, planned, actual) ==
    [work_package |-> package,
     planned_duration |-> planned,
     actual_duration |-> actual,
     variance |-> FSub(actual, planned),
     bottleneck_factor |-> FDiv(actual, planned)]

\* data[c], a column
Column(data, c) == [i \in 1..Len(data) |-> data[i][c]]

\* data.empty
DataEmpty(data) == Len(data) = 0

\* the literals 1.1 and 1.2
AdherenceBound == Float(11, 10)
BottleneckBound == Float(12, 10)
Hundred == FloatOf(100)

\* as AdherenceFlag, had the flag excluded the bound
FlagBelowBound(ratio) == FLt(ratio, AdherenceBound)

\* variance_ratio <= 1.1, row by row
AdherenceFlag(ratio) == FLeq(ratio, AdherenceBound)

\* as IsBottleneck, had the filter included the bound
AtLeastBound(factor) == FLeq(BottleneckBound, factor)

\* row['bottleneck_factor'] > 1.2
IsBottleneck(factor) == FGt(factor, BottleneckBound)

\* Series.mean() of a column of floats
FMean(xs) == FDiv(FSum(xs), FloatOf(Len(xs)))

\* Series.std(): the sample standard deviation, NaN for a single row
FStd(xs) ==
    LET mean == FMean(xs)
        sq == [i \in 1..Len(xs) |-> FMul(FSub(xs[i], mean), FSub(xs[i], mean))]
    IN  FSqrt(FDiv(FSum(sq), FloatOf(Len(xs) - 1)))

\* as AdherenceOfEmpty, had the empty frame gone through the general formulas:
\* the mean and the deviation of no value
AdherenceOfNothing == [average_adherence |-> NaN, stability_index |-> NaN]

\* the dict returned for the empty frame
AdherenceOfEmpty == [average_adherence |-> Zero, stability_index |-> Zero]

calculate_takt_adherence(data) ==
    IF DataEmpty(data) THEN AdherenceOfEmpty
    ELSE LET variance_ratio ==
                 [i \in 1..Len(data) |-> FDiv(data[i].actual_duration, data[i].planned_duration)]
             flags == [i \in 1..Len(data) |->
                          IF AdherenceFlag(variance_ratio[i]) THEN FloatOf(1) ELSE Zero]
         IN  [average_adherence |-> FMul(FMean(flags), Hundred),
              stability_index |-> FSub(Hundred, FMul(FStd(variance_ratio), Hundred))]

calculate_flow_efficiency(data) ==
    IF DataEmpty(data) THEN [flow_efficiency |-> Zero, waste_percentage |-> Zero]
    ELSE LET total_time == FSum(Column(data, "actual_duration"))
             value_added_time ==
                 FSum(Column(SelectSeq(data, LAMBDA r : FLeq(r.variance, Zero)),
                             "actual_duration"))
             flow_efficiency ==
                 IF FGt(total_time, Zero)
                 THEN FMul(FDiv(value_added_time, total_time), Hundred)
                 ELSE Zero
         IN  [flow_efficiency |-> flow_efficiency,
              waste_percentage |-> FSub(Hundred, flow_efficiency)]

analyze_bottlenecks(data) ==
    IF DataEmpty(data) THEN <<>>
    ELSE LET bottlenecks == SelectSeq(data, LAMBDA r : IsBottleneck(r.bottleneck_factor))
         IN  [i \in 1..Len(bottlenecks) |->
                 [work_package |-> bottlenecks[i].work_package,
                  bottleneck_factor |-> bottlenecks[i].bottleneck_factor,
                  impact |-> bottlenecks[i].variance]]

\* rolling(window=5): the rows a window takes
RollingWindow == 5

\* rolling(window=5).mean(): NaN until the window is full, then the mean of the
\* last five values
RollingMean(xs) ==
    [i \in 1..Len(xs) |->
        IF i < RollingWindow THEN NaN
        ELSE FDiv(FSum(SubSeq(xs, i - RollingWindow + 1, i)), FloatOf(RollingWindow))]

analyze_variance_trends(data) ==
    IF DataEmpty(data) THEN [trend |-> "No data", pattern |-> PyNone]
    ELSE LET variance_series == RollingMean(Column(data, "variance"))
             \* variance_series.iloc[-1] < variance_series.iloc[0]
             improves == FLt(variance_series[Len(variance_series)], variance_series[1])
         IN  [trend |-> IF improves THEN "Improving" ELSE "Degrading",
              pattern |-> variance_series]

(***************************************************************************)
(* The frames the metrics are called with.                                 *)
(***************************************************************************)
\* the work packages insert_sample_data writes
WorkPackages == <<"Foundation", "Framing", "MEP", "Finishes", "Exterior">>

\* one row per work package: a ratio of 1.1, a ratio of 4/3, a ratio of 1.2, a
\* short package on time and a package that took no time; and a row of the
\* first package that was planned with no time
SampleRecords ==
    << DurationRecord(WorkPackages[1], FloatOf(20), FloatOf(22)),
       DurationRecord(WorkPackages[2], FloatOf(30), FloatOf(40)),
       DurationRecord(WorkPackages[3], FloatOf(20), FloatOf(24)),
       DurationRecord(WorkPackages[4], FloatOf(1), FloatOf(1)),
       DurationRecord(WorkPackages[5], FloatOf(20), Zero),
       DurationRecord(WorkPackages[1], Zero, FloatOf(20)) >>

\* n rows whose variance falls from n - 1 to 0
FallingRamp(n) ==
    [i \in 1..n |-> DurationRecord(WorkPackages[1], FloatOf(20), FloatOf(20 + n - i))]

\* every frame of at most MaxRecords sample rows, and the ramps of at most
\* MaxRamp rows
Frames ==
    UNION {[1..n -> {SampleRecords[i] : i \in 1..Len(SampleRecords)}] : n \in 0..MaxRecords}
        \cup {FallingRamp(n) : n \in 1..MaxRamp}

\* the frames with the same rows in another order
Reorderings(data) ==
    {[i \in 1..Len(data) |-> data[p[i]]] :
        p \in {q \in [1..Len(data) -> 1..Len(data)] :
                   \A i, j \in 1..Len(data) : i # j => q[i] # q[j]}}

(***************************************************************************)
(* The metrics, called one at a time.                                      *)
(***************************************************************************)
\* a call is made once the result of the one before has been looked at
Reported(op, data, out) ==
    /\ report = NoReport
    /\ report' = [op |-> op, data |-> data, out |-> out]
    /\ UNCHANGED <<agents, heap, cv, last, pinned, orch, par, store, ui>>

DoTaktAdherence(data) == Reported("takt_adherence", data, calculate_takt_adherence(data))

DoFlowEfficiency(data) == Reported("flow_efficiency", data, calculate_flow_efficiency(data))

DoBottlenecks(data) == Reported("bottlenecks", data, analyze_bottlenecks(data))

DoVarianceTrends(data) == Reported("variance_trends", data, analyze_variance_trends(data))

(***************************************************************************)
(* TAKT time.  The raw data of the processor is a dict of Python numbers;  *)
(* a key is present with an integer value or absent.                       *)
(***************************************************************************)
NoEntry == [present |-> FALSE, value |-> 0]
Entry(v) == [present |-> TRUE, value |-> v]

\* the raw data the processor is called with: available minutes and demanded
\* units, each given or left out; the demand may be zero or negative
RawData ==
    [available_time : {NoEntry, Entry(0), Entry(8)},
     customer_demand : {NoEntry, Entry(0), Entry(-2), Entry(4)}]

\* data.get(key, default)
DictGet(data, key, default) == IF data[key].present THEN data[key].value ELSE default

\* TaktDataProcessor._calculate_takt_metrics without cycle_times in the data: the
\* quotient of two Python numbers raises ZeroDivisionError for a divisor 0; the
\* cycle time is the mean of the one-element list [takt_time]
calculate_takt_metrics(data) ==
    LET available_time == DictGet(data, "available_time", 0)
        customer_demand == DictGet(data, "customer_demand", 1)
    IN  IF customer_demand = 0
        THEN [raised |-> TRUE, takt_time |-> NaN, cycle_time |-> NaN, efficiency |-> NaN]
        ELSE LET takt_time == FDiv(FloatOf(available_time), FloatOf(customer_demand))
                 cycle_time == FMean(<<takt_time>>)
             IN  [raised |-> FALSE, takt_time |-> takt_time, cycle_time |-> cycle_time,
                  efficiency |->
                      FMul(IF FGt(cycle_time, Zero) THEN FDiv(takt_time, cycle_time)
                           ELSE Zero,
                           Hundred)]

DoTaktMetrics(data) == Reported("takt_metrics", data, calculate_takt_metrics(data))

\* SchedulingEngineer._compute_takt_time(context), called on its own
DoComputeTaktTime(context) ==
    Reported("compute_takt_time", context, Call("SchedulingEngineer", "_compute_takt_time"))

\* the caller drops the result it holds
Forget ==
    /\ report # NoReport
    /\ report' = NoReport
    /\ UNCHANGED <<agents, heap, cv, last, pinned, orch, par, store, ui>>

MetricsNext ==
    \/ \E data \in Frames : DoTaktAdherence(data)
    \/ \E data \in Frames : DoFlowEfficiency(data)
    \/ \E data \in Frames : DoBottlenecks(data)
    \/ \E data \in Frames : DoVarianceTrends(data)
    \/ \E data \in RawData : DoTaktMetrics(data)
    \/ \E context \in InputContexts : DoComputeTaktTime(context)
    \/ Forget

(***************************************************************************)
(* The database.  A row is known by its place in its table.  The          *)
(* probability, impact and status of a risk event and the work area of a   *)
(* performance metric are values that no selection depends on, and are     *)
(* left out.  A timestamp is a number of seconds; the same second of the   *)
(* day before is MaxClock less.                                            *)
(***************************************************************************)
\* the projects init_db.py inserts sample data for
Projects == {"Project A", "Project B", "Project C"}

\* project_id = None, the default of get_risk_matrix
NoProject == "None"

RiskTypes ==
    <<"Weather Delay", "Material Shortage", "Labor Shortage", "Equipment Failure",
      "Quality Issues">>

\* the rows insert_sample_data adds to risk_events: one per risk type, all with
\* the current time and the project
SampleRiskEvents(now, project_id) ==
    [k \in 1..Len(RiskTypes) |->
        [timestamp |-> now, risk_type |-> RiskTypes[k], project_id |-> project_id]]

\* the tables
Tables == {"performance_metrics", "resource_utilization", "risk_events", "takt_metrics"}

\* the days of pd.date_range: today and the Days - 1 days before it, oldest first
SampleDates(now) == [d \in 1..Days |-> now - (Days - d) * MaxClock]

\* np.random.uniform: the generator gives the values of a sequence in turn
Draw(values, n) == values[(n % Len(values)) + 1]

\* values of uniform(20, 40), uniform(0.9, 1.2), uniform(70, 90) and
\* uniform(0.8, 1.1)
PlannedDurations == <<FloatOf(20), FloatOf(30), FloatOf(36)>>
DurationFactors == <<Float(9, 10), FloatOf(1), Float(11, 10)>>
PlannedAmounts == <<FloatOf(80), FloatOf(72), FloatOf(88)>>
AmountFactors == <<FloatOf(1), Float(8, 10), Float(21, 20)>>

MetricTypes == <<"TAKT_Adherence", "Flow_Efficiency", "Resource_Utilization">>
ResourceTypes == <<"Labor", "Equipment", "Materials", "Space">>

\* the row written for a resource: the efficiency is computed from the two
\* amounts
UtilizationRecord(resource, planned, actual) ==
    [resource_type |-> resource, planned |-> planned, actual |-> actual,
     efficiency |-> FMul(FDiv(actual, planned), Hundred)]

\* the rows added to performance_metrics: three per day
SamplePerformance(now, seed, project_id) ==
    [k \in 1..(Days * Len(MetricTypes)) |->
        [timestamp |-> SampleDates(now)[((k - 1) \div Len(MetricTypes)) + 1],
         metric_type |-> MetricTypes[((k - 1) % Len(MetricTypes)) + 1],
         value |-> Draw(PlannedAmounts, seed + k),
         project_id |-> project_id]]

\* the rows added to takt_metrics: one per day and work package, with
\* planned = uniform(20, 40) and actual = planned * uniform(0.9, 1.2)
SampleTakt(now, seed, project_id) ==
    [k \in 1..(Days * Len(WorkPackages)) |->
        LET planned == Draw(PlannedDurations, seed + k)
            actual == FMul(planned, Draw(DurationFactors, (seed + k) \div 3))
        IN  DurationRecord(WorkPackages[((k - 1) % Len(WorkPackages)) + 1], planned, actual)
                @@ [timestamp |-> SampleDates(now)[((k - 1) \div Len(WorkPackages)) + 1],
                    project_id |-> project_id]]

\* the rows added to resource_utilization: one per day and resource, with
\* planned = uniform(70, 90) and actual = planned * uniform(0.8, 1.1)
SampleUtilization(now, seed, project_id) ==
    [k \in 1..(Days * Len(ResourceTypes)) |->
        LET planned == Draw(PlannedAmounts, seed + k)
            actual == FMul(planned, Draw(AmountFactors, (seed + k) \div 3))
        IN  UtilizationRecord(ResourceTypes[((k - 1) % Len(ResourceTypes)) + 1],
                              planned, actual)
                @@ [timestamp |-> SampleDates(now)[((k - 1) \div Len(ResourceTypes)) + 1],
                    project_id |-> project_id]]

\* as InsertSampleData, had the sample rows replaced the rows of the tables
InsertReplacing(project_id) ==
    /\ report = NoReport
    /\ Len(store.risk_events) < MaxInserts * Len(RiskTypes)
    /\ LET seed == Len(store.takt_metrics)
       IN store' = [store EXCEPT
                       !.performance_metrics = SamplePerformance(store.now, seed, project_id),
                       !.takt_metrics = SampleTakt(store.now, seed, project_id),
                       !.resource_utilization = SampleUtilization(store.now, seed, project_id),
                       !.risk_events = SampleRiskEvents(store.now, project_id)]
    /\ UNCHANGED <<agents, heap, cv, last, pinned, orch, par, report, ui>>

\* insert_sample_data(project_id): rows are added to the four tables and
\* committed together; the generator has moved on by the rows written before
InsertSampleData(project_id) ==
    /\ report = NoReport
    /\ Len(store.risk_events) < MaxInserts * Len(RiskTypes)
    /\ LET seed == Len(store.takt_metrics)
       IN store' = [store EXCEPT
                       !.performance_metrics = @ \o SamplePerformance(store.now, seed, project_id),
                       !.takt_metrics = @ \o SampleTakt(store.now, seed, project_id),
                       !.resource_utilization = @ \o SampleUtilization(store.now, seed, project_id),
                       !.risk_events = @ \o SampleRiskEvents(store.now, project_id)]
    /\ UNCHANGED <<agents, heap, cv, last, pinned, orch, par, report, ui>>

\* initialize_database on a database that has its tables: CREATE TABLE IF NOT
\* EXISTS leaves them as they are
InitializeDatabase ==
    /\ report = NoReport
    /\ store' = [t \in DOMAIN store |-> store[t]]
    /\ UNCHANGED <<agents, heap, cv, last, pinned, orch, par, report, ui>>

\* a second passes: datetime.now() formats to the next timestamp
Tick ==
    /\ report = NoReport
    /\ store.now < MaxClock
    /\ store' = [store EXCEPT !.now = @ + 1]
    /\ UNCHANGED <<agents, heap, cv, last, pinned, orch, par, report, ui>>

\* as SubqueryRows, had the inner query no condition on the project
AllRows(rows, project_id) == 1..Len(rows)

\* the rows of the inner query: WHERE project_id = ? OR project_id IS NULL
SubqueryRows(rows, project_id) ==
    {i \in 1..Len(rows) :
        \/ project_id # NoProject /\ rows[i].project_id = project_id
        \/ rows[i].project_id = NoProject}

\* SELECT MAX(timestamp) over these rows: NULL over no row
MaxTimestamp(rows, S) ==
    IF S = {} THEN [null |-> TRUE, value |-> 0]
    ELSE [null |-> FALSE,
          value |-> CHOOSE t \in {rows[i].timestamp : i \in S} :
                        \A i \in S : rows[i].timestamp <= t]

\* get_risk_matrix(project_id): the rows whose timestamp equals the inner query's
\* value, in table order; a comparison with NULL selects nothing
get_risk_matrix(rows, project_id) ==
    LET latest == MaxTimestamp(rows, SubqueryRows(rows, project_id))
        selected == SelectSeq([i \in 1..Len(rows) |-> i],
                              LAMBDA i : ~latest.null /\ rows[i].timestamp = latest.value)
    IN  [k \in 1..Len(selected) |->
            [row |-> selected[k], risk_type |-> rows[selected[k]].risk_type]]

DoGetRiskMatrix(project_id) ==
    /\ report = NoReport
    /\ report' = [op |-> "risk_matrix", data |-> project_id,
                  out |-> get_risk_matrix(store.risk_events, project_id)]
    /\ UNCHANGED <<agents, heap, cv, last, pinned, orch, par, store, ui>>

\* project_id = '', the empty string
EmptyName == ""

\* Python's truth value of a project_id: None and the empty string are false
GivenProject(project_id) == project_id # NoProject /\ project_id # EmptyName

\* WHERE timestamp BETWEEN ? AND ?, and AND project_id = ? when the query was
\* given a project_id that is true: the places of the rows, in table order
SelectBetween(rows, start_date, end_date, project_id) ==
    SelectSeq([i \in 1..Len(rows) |-> i],
              LAMBDA i : /\ start_date <= rows[i].timestamp
                         /\ rows[i].timestamp <= end_date
                         /\ GivenProject(project_id) => rows[i].project_id = project_id)

\* the columns of the rows at these places
Frame(rows, places, columns) ==
    [k \in 1..Len(places) |-> [c \in columns |-> rows[places[k]][c]]]

TaktColumns ==
    {"timestamp", "work_package", "planned_duration", "actual_duration", "variance",
     "bottleneck_factor"}
UtilizationColumns == {"timestamp", "resource_type", "planned", "actual", "efficiency"}

\* get_takt_metrics(start_date, end_date, project_id)
get_takt_metrics(start_date, end_date, project_id) ==
    Frame(store.takt_metrics,
          SelectBetween(store.takt_metrics, start_date, end_date, project_id),
          TaktColumns)

\* get_resource_utilization(start_date, end_date, project_id)
get_resource_utilization(start_date, end_date, project_id) ==
    Frame(store.resource_utilization,
          SelectBetween(store.resource_utilization, start_date, end_date, project_id),
          UtilizationColumns)

\* _calculate_predictive_metrics: a regression whose numbers are not computed
calculate_predictive_metrics(data) ==
    IF DataEmpty(data) THEN [prediction |-> PyNone, confidence |-> PyStr("0")]
    ELSE [prediction |-> PyNumber, confidence |-> PyNumber]

\* calculate_advanced_metrics(start_date, end_date, project_id)
calculate_advanced_metrics(start_date, end_date, project_id) ==
    LET takt_data == get_takt_metrics(start_date, end_date, project_id)
    IN  [takt_adherence |-> calculate_takt_adherence(takt_data),
         flow_efficiency |-> calculate_flow_efficiency(takt_data),
         bottleneck_analysis |-> analyze_bottlenecks(takt_data),
         variance_trends |-> analyze_variance_trends(takt_data),
         predictive_metrics |-> calculate_predictive_metrics(takt_data)]

\* the arguments of a query: the last day and today, today, the day before;
\* a project, None or the empty string
Windows == {<<1 - MaxClock, MaxClock>>, <<1, MaxClock>>, <<1 - MaxClock, 0>>}
QueryProjects == Projects \cup {NoProject, EmptyName}
QueryArgs ==
    {[start_date |-> w[1], end_date |-> w[2], project_id |-> p] :
        w \in Windows, p \in QueryProjects}

\* the queries for the rows of the last day and today
TwoDayArgs == {q \in QueryArgs : q.start_date = 1 - MaxClock /\ q.end_date = MaxClock}

\* the queries for today's rows of the first project
TodayArgs == {q \in QueryArgs : q.start_date = 1 /\ q.project_id = "Project A"}

DoGetTaktMetrics(q) ==
    Reported("takt_metrics_query", q,
             get_takt_metrics(q.start_date, q.end_date, q.project_id))

DoGetResourceUtilization(q) ==
    Reported("resource_utilization", q,
             get_resource_utilization(q.start_date, q.end_date, q.project_id))

DoAdvancedMetrics(q) ==
    Reported("advanced_metrics", q,
             calculate_advanced_metrics(q.start_date, q.end_date, q.project_id))

StoreNext ==
    \/ InitializeDatabase
    \/ \E p \in Projects : InsertSampleData(p)
    \/ Tick
    \/ \E p \in Projects \cup {NoProject} : DoGetRiskMatrix(p)
    \/ Forget

InsertNext ==
    \/ InitializeDatabase
    \/ \E p \in Projects : InsertSampleData(p)
    \/ Tick

QueryNext ==
    \/ InitializeDatabase
    \/ \E p \in Projects : InsertSampleData(p)
    \/ Tick
    \/ \E p \in Projects \cup {NoProject} : DoGetRiskMatrix(p)
    \/ \E q \in QueryArgs : DoGetTaktMetrics(q)
    \/ \E q \in TwoDayArgs : DoGetResourceUtilization(q)
    \/ \E q \in TodayArgs : DoAdvancedMetrics(q)
    \/ Forget

(***************************************************************************)
(* The TAKT planning page.  An action is what one click does: the run of   *)
(* the script that handles it and, after st.experimental_rerun(), the run  *)
(* that follows.  A point in time is a number of days after the            *)
(* datetime.now() of the run.  Streamlit keeps the value of a widget with  *)
(* a key in the session state under that key, and drops it when a run      *)
(* ends in which the widget was not drawn.                                 *)
(***************************************************************************)
\* the values of the number inputs and the slider above the form
AvailableTime == 8
CrewSize == 10
BufferPercentage == 15
ProductivityRate == 10
\* the work amount the form starts with
DefaultAmount == 100

PackageNames == {"A", "B", "C"}
WorkAmounts == {800, 1600}
StatusOptions == <<"Not Started", "In Progress", "Completed", "Delayed">>

\* next((w for w in work_packages if w['name'] == dep), None): the place of
\* the first work package of this name, 0 for None
FirstNamed(wps, dep) ==
    IF \E j \in 1..Len(wps) : wps[j].name = dep
    THEN CHOOSE j \in 1..Len(wps) :
            wps[j].name = dep /\ \A h \in 1..(j - 1) : wps[h].name # dep
    ELSE 0

\* max(dep_end_dates)
Latest(dates) == CHOOSE d \in dates : \A e \in dates : FLeq(e, d)

\* the tasks of the timeline, one per work package
Tasks(wps) ==
    [k \in 1..Len(wps) |->
        LET wp == wps[k]
            now == Zero
            found == {FirstNamed(wps, dep) : dep \in wp.dependencies} \ {0}
            dep_end_dates == {FAdd(now, wps[j].total_duration) : j \in found}
            start_date == IF dep_end_dates = {} THEN now ELSE Latest(dep_end_dates)
        IN  [Task |-> wp.name,
             Start |-> start_date,
             Duration |-> wp.total_duration,
             End |-> FAdd(start_date, wp.total_duration),
             Dependencies |-> wp.dependencies]]

\* f"status_{wp['name']}_{i}"
StatusKey(wps, k) == <<wps[k].name, k - 1>>

\* as ControlBoard, had the session state kept every key it ever held
BoardOfAllKeys(wps, status) ==
    [key \in {StatusKey(wps, k) : k \in 1..Len(wps)} \cup DOMAIN status |->
        IF key \in DOMAIN status THEN status[key] ELSE StatusOptions[1]]

\* the control board: a select box per work package under its key, with 'Not
\* Started' for a key the session state does not hold; the keys of the boxes
\* drawn are the status keys the session state holds after the run
ControlBoard(wps, status) ==
    [key \in {StatusKey(wps, k) : k \in 1..Len(wps)} |->
        IF key \in DOMAIN status THEN status[key] ELSE StatusOptions[1]]

\* the status keys after a run that st.experimental_rerun() ended above the
\* control board: kept, or dropped as the keys of boxes that were not drawn
AfterRerun(status) == {status, <<>>}

\* the run after a click that changed the work packages
Rerun(wps, status, click) ==
    [work_packages |-> wps,
     status |-> ControlBoard(wps, status),
     tasks |-> Tasks(wps),
     last |-> click]

\* "Add Work Package" with the form's values; without a name the page shows an
\* error and the run goes on
AddWorkPackage(package_name, work_amount, dependencies) ==
    /\ Len(ui.work_packages) < MaxPackages
    /\ dependencies \subseteq {ui.work_packages[k].name : k \in 1..Len(ui.work_packages)}
    /\ IF package_name # ""
       THEN LET base_duration ==
                    FDiv(FloatOf(work_amount),
                         FMul(FMul(FloatOf(ProductivityRate), FloatOf(CrewSize)),
                              FloatOf(AvailableTime)))
                buffer_time == FMul(base_duration, FDiv(FloatOf(BufferPercentage), Hundred))
                total_duration == FAdd(base_duration, buffer_time)
                wp == [name |-> package_name,
                       work_amount |-> work_amount,
                       dependencies |-> dependencies,
                       base_duration |-> base_duration,
                       buffer_time |-> buffer_time,
                       total_duration |-> total_duration]
            IN  \E status \in AfterRerun(ui.status) :
                    ui' = Rerun(Append(ui.work_packages, wp), status, "add")
       ELSE ui' = Rerun(ui.work_packages, ui.status, "error")
    /\ UNCHANGED <<agents, heap, cv, last, pinned, orch, par, store, report>>

\* "Clear All Work Packages", a button of the page with work packages
ClearAll ==
    /\ ui.work_packages # <<>>
    /\ \E status \in AfterRerun(ui.status) : ui' = Rerun(<<>>, status, "clear")
    /\ UNCHANGED <<agents, heap, cv, last, pinned, orch, par, store, report>>

\* the select box of the k-th work package is set to a status; the run draws
\* the timeline of the same work packages again
SelectStatus(k, new_status) ==
    /\ k \in 1..Len(ui.work_packages)
    /\ ui' = [ui EXCEPT
                 !.status = ControlBoard(ui.work_packages,
                                [@ EXCEPT ![StatusKey(ui.work_packages, k)] = new_status]),
                 !.last = "select"]
    /\ UNCHANGED <<agents, heap, cv, last, pinned, orch, par, store, report>>

\* the names of the work packages, the options of the dependencies
NamesOf(wps) == {wps[k].name : k \in 1..Len(wps)}

\* the page under work packages with at most one dependency each
PlanNext ==
    \/ \E n \in PackageNames \cup {""}, a \in WorkAmounts,
          d \in {{}} \cup {{m} : m \in NamesOf(ui.work_packages)} : AddWorkPackage(n, a, d)
    \/ ClearAll

\* the page under work packages without dependencies and status changes
BoardNext ==
    \/ \E n \in PackageNames \cup {""} : AddWorkPackage(n, DefaultAmount, {})
    \/ \E k \in 1..MaxPackages, s \in 1..Len(StatusOptions) : SelectStatus(k, StatusOptions[s])
    \/ ClearAll

OrchNext ==
    \/ \E c \in InputContexts : OStart(c)
    \/ OAnalyze
    \/ OBeginValidation
    \/ OCrossValidate
    \/ CVCopy
    \/ CVInit
    \/ CVLoop
    \/ CVAppend
    \/ OCrossValidated
    \/ OEndValidation
    \/ OSynthesize
    \/ \E v \in ValidatedInputs : DoSynthesize(v)

CVNext ==
    \/ \E a \in AgentIds, ps \in PeerLists, x \in InputAnalyses : CVCall(a, ps, x)
    \/ CVCopy
    \/ CVInit
    \/ CVLoop
    \/ CVAppend
    \/ CVReturn

DirectNext ==
    \/ \E a \in AgentIds, c \in InputContexts : DoAnalyze(a, c)
    \/ \E a \in AgentIds, x \in InputAnalyses : DoValidate(a, x)
    \/ Pin
    \/ \E a \in AgentIds, ps \in DirectPeerLists, x \in InputAnalyses : CVCall(a, ps, x)
    \/ CVCopy
    \/ CVInit
    \/ CVLoop
    \/ CVAppend
    \/ CVReturn

vars == <<agents, heap, cv, last, pinned, orch, par, store, report, ui>>

\* the six configured agents under direct calls of analyze, validate and
\* cross_validate
Spec == DirectInit /\ [][DirectNext]_vars

\* cross_validate over pools of agents
SpecCV == PoolInit /\ [][CVNext]_vars

\* analyze_project over registries of agents
SpecOrch == OrchInit /\ [][OrchNext]_vars

\* two cross_validate calls on one analysis, interleaved
SpecPar == PoolInit /\ [][ParNext]_vars

\* the metrics of the data service over frames of duration records
SpecMetrics == DirectInit /\ [][MetricsNext]_vars

\* the database under inserts and the risk matrix
SpecStore == DirectInit /\ [][StoreNext]_vars

\* the database under inserts
SpecInsert == DirectInit /\ [][InsertNext]_vars

\* the database under inserts, the queries and the advanced metrics
SpecQuery == DirectInit /\ [][QueryNext]_vars

\* the timeline of the TAKT planning page
SpecPlan == DirectInit /\ [][PlanNext]_vars

\* the control board of the TAKT planning page
SpecBoard == DirectInit /\ [][BoardNext]_vars

(***************************************************************************)
(* Reading the state.                                                      *)
(***************************************************************************)
\* the cross_validation_results of the returned structure with this id
Results(id) == heap[ResultsOf(heap, id)].elems

\* the peers of a list that do not carry the agent's profile, in list order
PeersApart(self, ps) ==
    SelectSeq(ps, LAMBDA j : agents[j].name # agents[self].name
                             \/ agents[j].expertise # agents[self].expertise
                             \/ agents[j].model # agents[self].model)

\* analyze_project has ended, by a return or by an exception
OrchEnded == orch.pc \in {"returned", "raised"}

\* every agent is an instance of one of the six variants
VariantsOnly == \A i \in AgentIds : agents[i].cls \in Variants

(***************************************************************************)
(* C1: an agent's cross_validate call over the peer list                   *)
(* _cross_validate_analyses builds for it, every other registered agent,   *)
(* returns exactly len(agents) - 1 cross-validation results, also when two *)
(* registered agents carry the same display name.                          *)
(***************************************************************************)
C1_ResultCount ==
    (VariantsOnly /\ AtReturn /\ cv.peers = OtherAgents(cv.self)) =>
        Len(Results(cv.validated)) = Len(agents) - 1

(***************************************************************************)
(* C2: cross_validate never changes the analysis it is given: while it     *)
(* runs and when it returns, the analysis and what it refers to are as     *)
(* they were at the call, every object the caller held is as it was, and   *)
(* the cross_validation_results field is on the returned structure and     *)
(* not on the input.                                                       *)
(***************************************************************************)
C2_InputUnchanged ==
    /\ cv.pc # "idle" => /\ Deep(heap, cv.analysis) = cv.before
                         /\ Release(heap) = BaseHeap
    /\ AtReturn => /\ cv.validated # cv.analysis
                   /\ heap[cv.analysis].items[ResultsKey] = Absent
                   /\ heap[cv.validated].items[ResultsKey].tag = "ref"

\* a call on the base analysis stands at its return with two results appended
C2_Witness ==
    /\ AtReturn
    /\ heap[cv.analysis] = BaseHeap[cv.analysis]
    /\ heap[cv.analysis].items["agent_name"] # Absent
    /\ Len(Results(cv.validated)) = 2

(***************************************************************************)
(* C3: with the roster the orchestrator is constructed with,               *)
(* analyze_project returns six individual analyses, each with five         *)
(* cross-validation results.                                               *)
(***************************************************************************)
C3_SixAnalyses ==
    (agents = InitializeAgents /\ OrchEnded) =>
        /\ orch.pc = "returned"
        /\ Len(orch.validated) = Len(ConfigKeys)
        /\ \A k \in 1..Len(orch.validated) :
               Len(Results(orch.validated[k])) = Len(ConfigKeys) - 1

(***************************************************************************)
(* C4: an error raised inside an agent's analyze or validate never ends    *)
(* analyze_project: with the roster the orchestrator is constructed with,  *)
(* the call does not leave by an exception.                                *)
(***************************************************************************)
C4_NeverAborts == agents = InitializeAgents => orch.pc # "raised"

C7_ValidateConservative ==
    last.op = "validate" =>
        /\ agents[last.agent].cls \in Variants
        /\ ~last.raised
        /\ last.val \in {PyTrue, PyFalse}
        /\ LET criteria == CallAll(agents[last.agent].cls,
                                   ValidationCriteria(agents[last.agent].cls), <<>>).vals
           IN  (last.val = PyTrue) <=> \A i \in 1..Len(criteria) : Truthy(criteria[i])
        /\ (\E k \in AnalysisKeys : last.before.obj.items[k] = Absent) => last.val = PyFalse

\* the data analyst has validated the empty mapping and answered False
C7_Witness ==
    /\ last.op = "validate"
    /\ agents[last.agent].cls = "DataAnalyst"
    /\ \A k \in Keys : last.before.obj.items[k] = Absent
    /\ last.val = PyFalse

(***************************************************************************)
(* C8: analyze of every variant returns an analysis whose reasoning_steps  *)
(* are six step records, each a mapping with a step name.                  *)
(***************************************************************************)
C8_SixSteps ==
    last.op = "analyze" =>
        /\ ~last.raised
        /\ LET steps == heap[heap[last.val.id].items["reasoning_steps"].id].elems
           IN  /\ Len(steps) = 6
               /\ \A i \in 1..Len(steps) : steps[i].tag = "step"

(***************************************************************************)
(* C9: analyze never raises, whatever the context holds: for every         *)
(* context, the empty one included, the call returns an analysis.          *)
(***************************************************************************)
C9_AnalyzeReturns ==
    last.op = "analyze" => (~last.raised /\ last.val.tag = "ref")

(***************************************************************************)
(* C10: at its return, cross_validate has called validate once on each     *)
(* peer whose profile (name, expertise, model) differs from its own and on *)
(* no other agent, in the order of the peer list; the results are those    *)
(* calls' verdicts in that order; the returned structure holds every item  *)
(* of the input and the results; and no result names the analysing agent   *)
(* as validator.                                                           *)
(***************************************************************************)
C10_CrossValidate ==
    (VariantsOnly /\ AtReturn) =>
        LET res == Results(cv.validated)
        IN  /\ cv.called = PeersApart(cv.self, cv.peers)
            /\ Len(res) = Len(cv.called)
            /\ \A i \in 1..Len(res) :
                   /\ res[i].validator = agents[cv.called[i]].name
                   /\ res[i].validated
                          = validate(agents[cv.called[i]].cls, cv.before.obj.items).val
                   /\ res[i].validator # agents[cv.self].name
            /\ \A k \in Keys \ {ResultsKey} :
                   heap[cv.validated].items[k] = cv.before.obj.items[k]


(***************************************************************************)
(* cross_validate side by side.                                            *)
(***************************************************************************)
\* what cross_validate of this agent does with these peers when it runs alone,
\* from the peer at position i on: the entries it appends, or the exception
RECURSIVE Alone(_, _, _, _)
Alone(self, peers, items, i) ==
    IF i > Len(peers) THEN [raised |-> FALSE, entries |-> <<>>]
    ELSE LET peer == agents[peers[i]]
             r == validate(peer.cls, items)
             rest == Alone(self, peers, items, i + 1)
         IN  IF peer.name = agents[self].name THEN rest
             ELSE IF r.raised \/ rest.raised THEN [raised |-> TRUE, entries |-> <<>>]
             ELSE [raised |-> FALSE,
                   entries |-> <<[validator |-> peer.name, validated |-> r.val]>>
                                   \o rest.entries]

\* thread t is over with what it gives alone: the exception, or a copy of the
\* analysis whose only new item is a list of its own with its own entries
AsAlone(t) ==
    LET th == par[t]
        alone == Alone(th.self, th.peers, th.before.obj.items, 1)
    IN  IF th.pc = "raised" THEN alone.raised
        ELSE /\ ~alone.raised
             /\ th.validated # th.analysis
             /\ \A k \in Keys \ {ResultsKey} :
                   heap[th.validated].items[k] = th.before.obj.items[k]
             /\ heap[th.validated].items[ResultsKey].tag = "ref"
             /\ heap[heap[th.validated].items[ResultsKey].id].elems = alone.entries

\* C11: when cross_validate calls on the same analysis object run side by side,
\* in any interleaving, each call returns what it returns alone: no call sees or
\* appends to the results of another, and the shared analysis is unchanged.
C11_SideBySide ==
    /\ \A t \in 1..Len(par) : Deep(heap, par[t].analysis) = par[t].before
    /\ \A t \in 1..Len(par) : ParDone(t) => AsAlone(t)
    /\ \A t, u \in 1..Len(par) :
          (t # u /\ par[t].pc \in {"loop", "append"} /\ par[u].pc \in {"loop", "append"}) =>
              /\ par[t].validated # par[u].validated
              /\ ResultsOf(heap, par[t].validated) # ResultsOf(heap, par[u].validated)

\* two calls on one analysis are over, each with an entry of its own that the
\* other does not have
C11_Witness ==
    /\ Len(par) > 1
    /\ par[1].analysis = par[2].analysis
    /\ \A t \in 1..Len(par) : par[t].pc = "loop" /\ par[t].i > Len(par[t].peers)
    /\ heap[ResultsOf(heap, par[1].validated)].elems # <<>>
    /\ heap[ResultsOf(heap, par[1].validated)].elems
           # heap[ResultsOf(heap, par[2].validated)].elems

(***************************************************************************)
(* Synthesis.                                                              *)
(***************************************************************************)
\* the parts of the bundle
FourParts ==
    {"strategic_recommendations", "implementation_plan", "risk_mitigation",
     "success_metrics"}

OverBound(data) ==
    {i \in 1..Len(data) : FLt(BottleneckBound, data[i].bottleneck_factor)}

\* the rows of the frame of the last call within the adherence bound
WithinBound(data) ==
    {i \in 1..Len(data) :
        FLeq(FDiv(data[i].actual_duration, data[i].planned_duration), AdherenceBound)}

\* the scenario of the specification: (planned 20, actual 22), (planned 30, actual 40)
ScenarioFrame == <<SampleRecords[1], SampleRecords[2]>>

\* C13: for every frame of duration records, _analyze_bottlenecks returns one
\* entry {work_package, bottleneck_factor, impact = variance} for exactly the
\* rows whose bottleneck_factor is greater than 1.2, in the order of the frame,
\* and none for any other row; a factor of exactly 1.2 is not reported.
C13_Bottlenecks ==
    report.op = "bottlenecks" =>
        /\ Len(report.out) = Cardinality(OverBound(report.data))
        /\ \E f \in [1..Len(report.out) -> OverBound(report.data)] :
              /\ \A j, k \in 1..Len(report.out) : j < k => f[j] < f[k]
              /\ \A k \in 1..Len(report.out) :
                    report.out[k] =
                        [work_package |-> report.data[f[k]].work_package,
                         bottleneck_factor |-> report.data[f[k]].bottleneck_factor,
                         impact |-> report.data[f[k]].variance]
        /\ \A k \in 1..Len(report.out) :
              report.out[k].bottleneck_factor # BottleneckBound

\* a frame with a row over the bound, a row at the bound and a row under it has
\* been filtered to the one row over the bound
C13_Witness ==
    /\ report.op = "bottlenecks"
    /\ report.data = <<SampleRecords[3], SampleRecords[2], SampleRecords[1]>>
    /\ Len(report.out) = 1
    /\ report.out[1].work_package = WorkPackages[2]

\* C14: for every non-empty frame, average_adherence is 100 times the fraction
\* of rows with actual_duration / planned_duration <= 1.1, the bound included;
\* the rows (20, 22), (30, 40) give the flags true, false and 50.0.
C14_AverageAdherence ==
    (report.op = "takt_adherence" /\ report.data # <<>>) =>
        /\ report.out.average_adherence =
              FMul(FDiv(FloatOf(Cardinality(WithinBound(report.data))),
                        FloatOf(Len(report.data))),
                   Hundred)
        /\ report.data = ScenarioFrame =>
              /\ WithinBound(report.data) = {1}
              /\ report.out.average_adherence = FloatOf(50)

\* the scenario has been computed, and its first row sits on the bound
C14_Witness ==
    /\ report.op = "takt_adherence"
    /\ report.data = ScenarioFrame
    /\ FDiv(report.data[1].actual_duration, report.data[1].planned_duration) = AdherenceBound
    /\ report.out.average_adherence = FloatOf(50)

\* C15: for the empty frame _calculate_takt_adherence returns
\* average_adherence = 0 and stability_index = 0, and does not raise.
C15_EmptyAdherence ==
    (report.op = "takt_adherence" /\ report.data = <<>>) =>
        /\ report.out.average_adherence = Zero
        /\ report.out.stability_index = Zero

\* the adherence of the empty frame has been returned
C15_Witness ==
    /\ report.op = "takt_adherence"
    /\ report.data = <<>>
    /\ report.out.average_adherence = Zero

\* C16: for every frame, the empty one and those whose actual durations sum to
\* zero included, _calculate_flow_efficiency returns
\* waste_percentage = 100 - flow_efficiency, and flow_efficiency = 0 whenever the
\* actual durations sum to zero.
C16_WasteComplement ==
    report.op = "flow_efficiency" =>
        /\ report.out.waste_percentage = FSub(Hundred, report.out.flow_efficiency)
        /\ FSum(Column(report.data, "actual_duration")) = Zero =>
              report.out.flow_efficiency = Zero

\* C17: flow efficiency does not depend on the order of the rows: every
\* reordering of a frame gives the same flow_efficiency and waste_percentage.
C17_OrderInvariant ==
    report.op = "flow_efficiency" =>
        \A other \in Reorderings(report.data) :
            calculate_flow_efficiency(other) = report.out

\* the variance falls strictly from row to row
StrictlyFalling(data) ==
    \A i \in 1..(Len(data) - 1) : FLt(data[i + 1].variance, data[i].variance)

\* C18: for every non-empty frame the trend is "Improving" if the last value of
\* the 5-period trailing moving average of the variance is less than its first
\* value and "Degrading" otherwise; a frame of six or more rows whose variance
\* falls strictly is labelled "Improving".
C18_TrendLabel ==
    (report.op = "variance_trends" /\ report.data # <<>>) =>
        /\ report.out.trend =
              IF FLt(report.out.pattern[Len(report.out.pattern)], report.out.pattern[1])
              THEN "Improving" ELSE "Degrading"
        /\ (Len(report.data) >= RollingWindow + 1 /\ StrictlyFalling(report.data)) =>
              report.out.trend = "Improving"


(***************************************************************************)
(* The risk matrix.                                                        *)
(***************************************************************************)
\* the rows of risk_events that belong to a project
RiskRowsOf(project_id) ==
    {i \in 1..Len(store.risk_events) : store.risk_events[i].project_id = project_id}

\* the most recent snapshot of a project: its rows with its latest timestamp
LatestSnapshot(project_id) ==
    {i \in RiskRowsOf(project_id) :
        \A j \in RiskRowsOf(project_id) :
            store.risk_events[j].timestamp <= store.risk_events[i].timestamp}

\* the rows of risk_events the last call returned
ReturnedRows == {report.out[k].row : k \in 1..Len(report.out)}

\* C19: after any sequence of inserts of risk records for several projects,
\* get_risk_matrix(p) returns the records of p's most recent snapshot and only
\* those: never a record of another project, also when another project has
\* records with the same timestamp.
C19_OwnSnapshot ==
    (report.op = "risk_matrix" /\ report.data \in Projects) =>
        /\ \A i \in ReturnedRows : store.risk_events[i].project_id = report.data
        /\ ReturnedRows = LatestSnapshot(report.data)

\* C20: when the store holds no risk record of a project, get_risk_matrix for
\* that project returns an empty collection and does not raise.
C20_NoRecords ==
    (report.op = "risk_matrix" /\ RiskRowsOf(report.data) = {}) =>
        report.out = <<>>

\* the table holds records of other projects, and the matrix of a project
\* without records has been returned empty
C20_Witness ==
    /\ report.op = "risk_matrix"
    /\ report.data \in Projects
    /\ store.risk_events # <<>>
    /\ RiskRowsOf(report.data) = {}
    /\ report.out = <<>>


(***************************************************************************)
(* The metrics on rows planned with no time and on single rows.            *)
(***************************************************************************)
\* a defined number: neither NaN nor an infinity
Defined(x) == x.tag = "num"

\* C24: for a frame with a row whose planned_duration is 0,
\* _calculate_takt_adherence does not divide by zero for that row and returns
\* defined numbers as average_adherence and stability_index.
C24_PlannedZero ==
    (/\ report.op = "takt_adherence"
     /\ \E i \in 1..Len(report.data) : report.data[i].planned_duration = Zero) =>
        /\ Defined(report.out.average_adherence)
        /\ Defined(report.out.stability_index)

\* C25: for a frame of a single row each metric returns, and every number it
\* returns is defined or the documented sentinel (0, null, "No data").
C25_SingleRow ==
    Len(report.data) = 1 =>
        /\ report.op = "takt_adherence" =>
              /\ Defined(report.out.average_adherence)
              /\ Defined(report.out.stability_index)
        /\ report.op = "flow_efficiency" =>
              /\ Defined(report.out.flow_efficiency)
              /\ Defined(report.out.waste_percentage)
        /\ report.op = "bottlenecks" =>
              \A k \in 1..Len(report.out) :
                  /\ Defined(report.out[k].bottleneck_factor)
                  /\ Defined(report.out[k].impact)
        /\ report.op = "variance_trends" =>
              \A k \in 1..Len(report.out.pattern) : Defined(report.out.pattern[k])


(***************************************************************************)
(* The registry and the caller's context under analyze_project.            *)
(***************************************************************************)
\* C22: the agent set of the orchestrator is fixed at construction: it holds one
\* agent per entry of the static roster, and no sequence of analyze_project
\* calls adds, removes or replaces an agent.
C22_RosterFixed ==
    /\ [](agents = InitializeAgents => agents = ConfiguredAgents)
    /\ [][agents' = agents]_vars

C30_TaktTime ==
    /\ report.op = "takt_metrics" =>
          LET available_time == DictGet(report.data, "available_time", 0)
              customer_demand == DictGet(report.data, "customer_demand", 1)
          IN  /\ ~report.out.raised
              /\ report.out.takt_time =
                    IF customer_demand > 0
                    THEN FDiv(FloatOf(available_time), FloatOf(customer_demand))
                    ELSE Zero
    /\ report.op = "compute_takt_time" => ~report.out.raised

\* C26: every row of takt_metrics has variance = actual_duration -
\* planned_duration and bottleneck_factor = actual_duration / planned_duration,
\* and every row of resource_utilization has efficiency = actual / planned *
\* 100, which is 100.0 for planned 80 and actual 80, after any number of
\* insert_sample_data calls
C26_ComputedColumns ==
    /\ \A i \in 1..Len(store.takt_metrics) :
          LET r == store.takt_metrics[i]
          IN  /\ r.variance = FSub(r.actual_duration, r.planned_duration)
              /\ r.bottleneck_factor = FDiv(r.actual_duration, r.planned_duration)
    /\ \A i \in 1..Len(store.resource_utilization) :
          LET r == store.resource_utilization[i]
          IN  /\ r.efficiency = FMul(FDiv(r.actual, r.planned), Hundred)
              /\ r.planned = FloatOf(80) /\ r.actual = FloatOf(80)
                    => r.efficiency = FloatOf(100)

\* two calls have written rows, one of them late and one with planned 80 and
\* actual 80
C26_Witness ==
    /\ Len(store.takt_metrics) >= 2 * Days * Len(WorkPackages)
    /\ \E i \in 1..Len(store.takt_metrics) :
          FGt(store.takt_metrics[i].variance, Zero)
    /\ \E i \in 1..Len(store.takt_metrics) :
          FLt(store.takt_metrics[i].variance, Zero)
    /\ \E i \in 1..Len(store.resource_utilization) :
          LET r == store.resource_utilization[i]
          IN  r.planned = FloatOf(80) /\ r.actual = FloatOf(80) /\ r.efficiency = FloatOf(100)

\* the rows of a table before a step are the first rows of the table after it
KeepsRows(t) ==
    /\ Len(store[t]) <= Len(store'[t])
    /\ \A i \in 1..Len(store[t]) : store'[t][i] = store[t][i]

\* C21: no step of initialize_database, insert_sample_data, a query or
\* calculate_advanced_metrics removes or changes a row of one of the four
\* tables, and a query or calculate_advanced_metrics leaves the four tables as
\* they are
C21_AppendOnly ==
    [][/\ \A t \in Tables : KeepsRows(t)
       /\ report' # NoReport => \A t \in Tables : store'[t] = store[t]]_vars

\* calculate_advanced_metrics has read rows of two insert_sample_data calls
C21_Witness ==
    /\ report.op = "advanced_metrics"
    /\ \A t \in Tables : Len(store[t]) > 0
    /\ Len(store.risk_events) >= 2 * Len(RiskTypes)
    /\ ~DataEmpty(get_takt_metrics(report.data.start_date, report.data.end_date,
                                    report.data.project_id))

\* the rows of takt_metrics with a timestamp from start_date to end_date, of
\* the given project when one is given, whatever its name
RecordsOfProject(q) ==
    Frame(store.takt_metrics,
          SelectSeq([i \in 1..Len(store.takt_metrics) |-> i],
                    LAMBDA i : /\ q.start_date <= store.takt_metrics[i].timestamp
                               /\ store.takt_metrics[i].timestamp <= q.end_date
                               /\ q.project_id # NoProject
                                     => store.takt_metrics[i].project_id = q.project_id),
          TaktColumns)

\* C27: get_takt_metrics(start_date, end_date, project_id) returns exactly the
\* records with a timestamp in [start_date, end_date] whose project_id equals
\* the given one, for every given project_id, the empty string included, and
\* the records of all projects only when no project_id is given
C27_ProjectFilter ==
    report.op = "takt_metrics_query" => report.out = RecordsOfProject(report.data)

(***************************************************************************)
(* The TAKT planning page.                                                 *)
(***************************************************************************)
\* C28: in the timeline every work package starts no earlier than the end of
\* each of its dependencies, also along a chain of three or more work packages
C28_StartsAfterDependencies ==
    \A k \in 1..Len(ui.tasks) :
        \A dep \in ui.tasks[k].Dependencies :
            LET j == FirstNamed(ui.work_packages, dep)
            IN  j # 0 => FLeq(ui.tasks[j].End, ui.tasks[k].Start)

\* C29: after any sequence of "Add Work Package", status changes and "Clear
\* All Work Packages", the work package that was just added is shown with the
\* status 'Not Started'
C29_NewNotStarted ==
    ui.last = "add" =>
        ui.status[StatusKey(ui.work_packages, Len(ui.work_packages))] = "Not Started"

\* a second work package has been added, under the name of the first, whose
\* status had been set to 'Completed'
C29_Witness ==
    /\ ui.last = "add"
    /\ Len(ui.work_packages) = 2
    /\ ui.work_packages[1].name = ui.work_packages[2].name
    /\ ui.status[StatusKey(ui.work_packages, 1)] = "Completed"

====
